---- MODULE Spec2Model ----
(***************************************************************************)
(* SeniorAssist backend: the conversation orchestrator (flow decision,     *)
(* merge with the LLM validator, emergency and reminder sub-flows), the    *)
(* repository it persists to and the REST handlers that share that store.  *)
(*                                                                         *)
(* Texts are sequences of one-character strings so that the substring      *)
(* tests of the source ("kw in text.lower()") are computed, not assumed.   *)
(* Python None is the value None; a string built by an f-string is the     *)
(* tuple of its parts.                                                     *)
(***************************************************************************)
EXTENDS Naturals, Integers, Sequences, FiniteSets, TLC

VARIABLES
    devices,    \* Device table: device_id -> row (or NoRow)
    reminders,  \* Reminder table, in created_at order; the id is the index
    events,     \* EmergencyEvent table, in created_at order; the id is the index
    resp,       \* what the last handler returned, with the trace of its calls
    probe,      \* input and output of a pure function under test
    facts       \* what the text predicates answer on each utterance; fixed at start

vars == <<devices, reminders, events, resp, probe, facts>>

None == "<None>"

(***************************************************************************)
(* Text primitives                                                         *)
(***************************************************************************)
UpperChars == <<"A","B","C","D","E","F","G","H","I","J","K","L","M","N","O","P","Q","R","S","T","U","V","W","X","Y","Z">>
LowerChars == <<"a","b","c","d","e","f","g","h","i","j","k","l","m","n","o","p","q","r","s","t","u","v","w","x","y","z">>

\* str.lower() on one character
LowerChar(c) ==
    IF \E i \in 1..Len(UpperChars) : UpperChars[i] = c
    THEN LowerChars[CHOOSE i \in 1..Len(UpperChars) : UpperChars[i] = c]
    ELSE c

\* str.lower()
Lower(txt) == [i \in 1..Len(txt) |-> LowerChar(txt[i])]

\* Python's "sub in txt" on strings
Contains(sub, txt) ==
    \E i \in 1..(Len(txt) + 1) :
        /\ i + Len(sub) - 1 <= Len(txt)
        /\ SubSeq(txt, i, i + Len(sub) - 1) = sub

\* any(w in txt for w in words)
AnyIn(words, txt) == \E k \in 1..Len(words) : Contains(words[k], txt)

RECORDATORIO_KEYWORDS ==
    << <<"r","e","c","o","r","d","a","t","o","r","i","o">>,
       <<"r","e","c","o","r","d","a","r">>,
       <<"a","n","o","t","a","r">>,
       <<"c","i","t","a">>,
       <<"a","l","a","r","m","a">>,
       <<"r","e","c","o","r","d","a","r","m","e">> >>

CancelWords ==
    << <<"c","a","n","c","e","l","a","r">>,
       <<"c","a","n","c","e","l","a">>,
       <<"o","l","v","i","d","a">>,
       <<"o","l","v","i","d","a","l","o">>,
       <<"a","n","u","l","a","r">>,
       <<"n","o"," ","g","r","a","c","i","a","s">>,
       <<"n","o",","," ","g","r","a","c","i","a","s">> >>

ConfirmWords ==
    << <<"c","o","n","f","i","r","m","o">>,
       <<"c","o","n","f","i","r","m","a">>,
       <<"c","o","n","f","i","r","m","a","r">>,
       <<"s","i">>,
       <<"s","í">>,
       <<"d","a","l","e">>,
       <<"o","k">>,
       <<"o","k","e","y">>,
       <<"v","a","l","e">>,
       <<"d","e"," ","a","c","u","e","r","d","o">> >>

TimeTokens ==
    << <<"m","a","n","a","n","a">>,
       <<"h","o","y">>,
       <<"t","a","r","d","e">>,
       <<"n","o","c","h","e">>,
       <<"a","m">>,
       <<"p","m">>,
       <<"m","i","n","u","t","o">>,
       <<"h","o","r","a">>,
       <<"h","o","r","a","s">> >>

EmergencyCancelWords ==
    << <<"f","a","l","s","a"," ","a","l","a","r","m","a">>,
       <<"y","a"," ","e","s","t","o","y"," ","b","i","e","n">>,
       <<"n","o"," ","l","l","a","m","e","s">>,
       <<"n","o"," ","l","l","a","m","e","s"," ","a"," ","n","a","d","i","e">>,
       <<"n","o"," ","e","s"," ","n","e","c","e","s","a","r","i","o">>,
       <<"t","o","d","o"," ","b","i","e","n">> >>

EmergencyConfirmWords ==
    << <<"l","l","a","m","a">>,
       <<"l","l","a","m","a","r">>,
       <<"c","o","n","t","a","c","t","a">>,
       <<"c","o","n","t","a","c","t","a","r">>,
       <<"a","m","b","u","l","a","n","c","i","a">>,
       <<"u","r","g","e","n","c","i","a","s">>,
       <<"e","m","e","r","g","e","n","c","i","a">>,
       <<"9","1","1">>,
       <<"1","1","2">> >>

\* _keyword_recordatorio
keyword_recordatorio(text) == AnyIn(RECORDATORIO_KEYWORDS, Lower(text))

\* _is_cancel
is_cancel(text) == AnyIn(CancelWords, Lower(text))

\* _is_confirm
is_confirm(text) == AnyIn(ConfirmWords, Lower(text))

Digits == {"0", "1", "2", "3", "4", "5", "6", "7", "8", "9"}

\* the characters the regex class \w matches in the texts modelled here
IsWordChar(c) ==
    \/ c \in Digits
    \/ c = "_"
    \/ \E i \in 1..Len(LowerChars) : LowerChars[i] = c \/ UpperChars[i] = c

\* the characters str.split() and \s treat as white space
IsSpace(c) == c = " "

\* the regex anchor \b between positions i-1 and i of txt
WordBoundary(txt, i) ==
    LET before == i > 1 /\ i - 1 <= Len(txt) /\ IsWordChar(txt[i - 1])
        after  == i >= 1 /\ i <= Len(txt) /\ IsWordChar(txt[i])
    IN  before # after

AllDigits(txt, i, j) == \A k \in i..j : k <= Len(txt) /\ txt[k] \in Digits

\* re.search(r"\b\d{1,2}:\d{2}\b", txt)
MatchesClock(txt) ==
    \E i \in 1..Len(txt) : \E n \in 1..2 :
        /\ WordBoundary(txt, i)
        /\ AllDigits(txt, i, i + n - 1)
        /\ i + n <= Len(txt) /\ txt[i + n] = ":"
        /\ AllDigits(txt, i + n + 1, i + n + 2)
        /\ WordBoundary(txt, i + n + 3)

\* re.search(r"\b\d{1,2}\s*(am|pm)\b", txt)
MatchesAmPm(txt) ==
    \E i \in 1..Len(txt) : \E n \in 1..2 : \E s \in 0..Len(txt) :
        /\ WordBoundary(txt, i)
        /\ AllDigits(txt, i, i + n - 1)
        /\ \A k \in (i + n)..(i + n + s - 1) : k <= Len(txt) /\ IsSpace(txt[k])
        /\ i + n + s + 1 <= Len(txt)
        /\ SubSeq(txt, i + n + s, i + n + s + 1) \in {<<"a", "m">>, <<"p", "m">>}
        /\ WordBoundary(txt, i + n + s + 2)

\* str.split(): the maximal runs of non-space characters from position i on,
\* cur being the run read so far
RECURSIVE SplitFrom(_, _, _)
SplitFrom(txt, i, cur) ==
    IF i > Len(txt) THEN (IF cur = <<>> THEN <<>> ELSE <<cur>>)
    ELSE IF IsSpace(txt[i])
         THEN (IF cur = <<>> THEN <<>> ELSE <<cur>>) \o SplitFrom(txt, i + 1, <<>>)
         ELSE SplitFrom(txt, i + 1, Append(cur, txt[i]))

\* txt.replace(",", " ")
CommasToSpaces(txt) == [i \in 1..Len(txt) |-> IF txt[i] = "," THEN " " ELSE txt[i]]

MinContentWords == 4

\* _reminder_slots
reminder_slots(text) ==
    LET txt   == Lower(text)
        split == SplitFrom(CommasToSpaces(txt), 1, <<>>)
        words == SelectSeq(split, LAMBDA w :
                     ~ \E k \in 1..Len(RECORDATORIO_KEYWORDS) : RECORDATORIO_KEYWORDS[k] = w)
    IN  [ has_time    |-> AnyIn(TimeTokens, txt) \/ MatchesClock(txt) \/ MatchesAmPm(txt),
          has_content |-> Len(words) >= MinContentWords ]

(***************************************************************************)
(* The utterances the turns are drawn from (already normalised by the      *)
(* /chat handler: stripped, accents removed, single spaces).               *)
(***************************************************************************)
\* "hola como estas"
TxtHola ==
    <<"h","o","l","a"," ","c","o","m","o"," ","e","s","t","a","s">>

\* "me duele el pecho"
TxtDolor ==
    <<"m","e"," ","d","u","e","l","e"," ","e","l"," ","p","e","c","h","o">>

\* "me cai y sangro, es emergencia"
TxtCaida ==
    <<"m","e"," ","c","a","i"," ","y"," ","s","a","n","g","r","o",","," ","e","s"," ","e","m","e","r","g","e","n","c","i","a">>

\* "falsa alarma, ya estoy bien"
TxtFalsa ==
    <<"f","a","l","s","a"," ","a","l","a","r","m","a",","," ","y","a"," ","e","s","t","o","y"," ","b","i","e","n">>

\* "LLAMA a urgencias"
TxtLlama ==
    <<"L","L","A","M","A"," ","a"," ","u","r","g","e","n","c","i","a","s">>

\* "no llames a nadie, fue una emergencia"
TxtAmbos ==
    <<"n","o"," ","l","l","a","m","e","s"," ","a"," ","n","a","d","i","e",","," ","f","u","e"," ","u","n","a"," ","e","m","e","r","g","e","n","c","i","a">>

\* "necesito recordar pagar la luz manana 9am"
TxtLuz ==
    <<"n","e","c","e","s","i","t","o"," ","r","e","c","o","r","d","a","r"," ","p","a","g","a","r"," ","l","a"," ","l","u","z"," ","m","a","n","a","n","a"," ","9","a","m">>

\* "recuerda pagar la luz manana 9am"
TxtRecuerda ==
    <<"r","e","c","u","e","r","d","a"," ","p","a","g","a","r"," ","l","a"," ","l","u","z"," ","m","a","n","a","n","a"," ","9","a","m">>

\* "cancela eso"
TxtCancela ==
    <<"c","a","n","c","e","l","a"," ","e","s","o">>

\* "olvidalo, si confirmo"
TxtOlvida ==
    <<"o","l","v","i","d","a","l","o",","," ","s","i"," ","c","o","n","f","i","r","m","o">>

\* "anotar cita"
TxtCita ==
    <<"a","n","o","t","a","r"," ","c","i","t","a">>

\* "quiero tomar la pastilla azul 10:30"
TxtPastilla ==
    <<"q","u","i","e","r","o"," ","t","o","m","a","r"," ","l","a"," ","p","a","s","t","i","l","l","a"," ","a","z","u","l"," ","1","0",":","3","0">>

Texts ==
    { TxtHola, TxtDolor, TxtCaida, TxtFalsa,
      TxtLlama, TxtAmbos, TxtLuz, TxtRecuerda,
      TxtCancela, TxtOlvida, TxtCita, TxtPastilla }

\* the cancel_words test of _handle_emergency
emergency_cancel(text) == AnyIn(EmergencyCancelWords, Lower(text))

\* the confirm_words test of _handle_emergency
emergency_confirm(text) == AnyIn(EmergencyConfirmWords, Lower(text))

\* What the predicates above answer on an utterance
FactsAbout(t) ==
    [ text                 |-> t,
      keyword_recordatorio |-> keyword_recordatorio(t),
      is_cancel            |-> is_cancel(t),
      is_confirm           |-> is_confirm(t),
      slots                |-> reminder_slots(t),
      emergency_cancel     |-> emergency_cancel(t),
      emergency_confirm    |-> emergency_confirm(t) ]

\* What they answer on each utterance of the turns, computed once.
TextFacts == { FactsAbout(t) : t \in Texts }

FactsOf(text) == CHOOSE f \in facts : f.text = text

(***************************************************************************)
(* Flow decisions (orchestrator.py)                                        *)
(***************************************************************************)
EMERGENCY_LABELS == {"emergencia_medica", "alerta_medica"}

ACOMP_LABELS ==
    { "conversacion_social", "saludo", "despedida", "motivacion_personal",
      "reporte_emocional", "agradecimiento", "no_entendido" }

CONSULTA_LABELS ==
    { "consulta_informacion", "informacion_personal", "monitoreo_salud",
      "configuracion_asistente", "comando_dispositivo" }

ALLOWED_FLOWS == {"emergencia", "recordatorio", "acompanamiento_social", "consulta_informacion"}

EMERGENCIA_CHARS ==
    <<"e","m","e","r","g","e","n","c","i","a">>

RECORDATORIO_CHARS ==
    <<"r","e","c","o","r","d","a","t","o","r","i","o">>

ACOMP_CHARS ==
    <<"a","c","o","m","p","a","n","a","m","i","e","n","t","o","_","s","o","c","i","a","l">>

CONSULTA_CHARS ==
    <<"c","o","n","s","u","l","t","a","_","i","n","f","o","r","m","a","c","i","o","n">>

\* the flow names as the characters an LLM reply spells them with
FlowChars ==
    [ f \in ALLOWED_FLOWS |->
        CASE f = "emergencia" -> EMERGENCIA_CHARS
          [] f = "recordatorio" -> RECORDATORIO_CHARS
          [] f = "acompanamiento_social" -> ACOMP_CHARS
          [] f = "consulta_informacion" -> CONSULTA_CHARS ]

\* A FlowDecision: next_prompt and reason are tuples of string parts; the
\* prompt None is <<>> and the empty prompt is <<"">>.
FlowDecision(flow, next_prompt, reason, source) ==
    [flow |-> flow, next_prompt |-> next_prompt, reason |-> reason, source |-> source]

NoPrompt == <<>>

\* Python truthiness of an Optional[str] prompt
Truthy(p) == p # NoPrompt /\ p # <<"">>

\* a or b
OrElse(a, b) == IF Truthy(a) THEN a ELSE b

\* An Optional value is <<>> (None) or <<v>>.
Absent == <<>>

Some(v) == <<v>>

PROMPT_EMERGENCY == <<"Emergencia detectada. Llamo a tu contacto de emergencia o a servicios de urgencia?">>

\* thresholds of decide_flow_local, in hundredths
SCORE_RECORDATORIO == 60

SCORE_KEYWORD == 70

\* intent.get("label") or "no_entendido"
LabelOf(intent) == IF intent.label \in {None, ""} THEN "no_entendido" ELSE intent.label

\* decide_flow_local without the gate's flag in its first rule
decide_flow_by_intent_only(text, intent, gate) ==
    LET label == LabelOf(intent)
        score == intent.score
        has_emergency_intent == label \in EMERGENCY_LABELS
        recordatorio_by_keyword == FactsOf(text).keyword_recordatorio
    IN  IF has_emergency_intent
        THEN FlowDecision("emergencia", PROMPT_EMERGENCY, <<"intent_emergency">>, "local")
        ELSE IF label = "recordatorio" /\ score >= SCORE_RECORDATORIO
        THEN FlowDecision("recordatorio", <<"Entendido. Que debo recordar y a que hora?">>,
                 <<"intent_recordatorio">>, "local")
        ELSE IF recordatorio_by_keyword /\ score < SCORE_KEYWORD
        THEN FlowDecision("recordatorio",
                 <<"Te ayudo a guardar un recordatorio. Que debo recordar y cuando?">>,
                 <<"keyword_recordatorio">>, "local")
        ELSE IF label \in CONSULTA_LABELS
        THEN FlowDecision("consulta_informacion",
                 <<"Claro, dime que informacion necesitas y te apoyo.">>,
                 <<"intent_consulta">>, "local")
        ELSE IF label \in ACOMP_LABELS
        THEN FlowDecision("acompanamiento_social",
                 <<"Estoy aqui contigo. Quieres contarme mas o necesitas apoyo en algo?">>,
                 <<"intent_acompanamiento">>, "local")
        ELSE FlowDecision("acompanamiento_social",
                 <<"Estoy aqui para ayudarte. Como puedo apoyarte?">>,
                 <<"fallback_acompanamiento">>, "local")

\* decide_flow_local whose keyword rule does not look at the score
decide_flow_keyword_any_score(text, intent, gate) ==
    LET label == LabelOf(intent)
        score == intent.score
        gate_emergency == gate.emergency
        has_emergency_intent == label \in EMERGENCY_LABELS
        recordatorio_by_keyword == FactsOf(text).keyword_recordatorio
    IN  IF gate_emergency \/ has_emergency_intent
        THEN FlowDecision("emergencia", PROMPT_EMERGENCY,
                 IF gate_emergency THEN <<"gate_emergency">> ELSE <<"intent_emergency">>,
                 "local")
        ELSE IF label = "recordatorio" /\ score >= SCORE_RECORDATORIO
        THEN FlowDecision("recordatorio", <<"Entendido. Que debo recordar y a que hora?">>,
                 <<"intent_recordatorio">>, "local")
        ELSE IF recordatorio_by_keyword
        THEN FlowDecision("recordatorio",
                 <<"Te ayudo a guardar un recordatorio. Que debo recordar y cuando?">>,
                 <<"keyword_recordatorio">>, "local")
        ELSE IF label \in CONSULTA_LABELS
        THEN FlowDecision("consulta_informacion",
                 <<"Claro, dime que informacion necesitas y te apoyo.">>,
                 <<"intent_consulta">>, "local")
        ELSE IF label \in ACOMP_LABELS
        THEN FlowDecision("acompanamiento_social",
                 <<"Estoy aqui contigo. Quieres contarme mas o necesitas apoyo en algo?">>,
                 <<"intent_acompanamiento">>, "local")
        ELSE FlowDecision("acompanamiento_social",
                 <<"Estoy aqui para ayudarte. Como puedo apoyarte?">>,
                 <<"fallback_acompanamiento">>, "local")

\* decide_flow_local whose keyword rule also takes the score 0.7 itself
decide_flow_keyword_inclusive(text, intent, gate) ==
    LET label == LabelOf(intent)
        score == intent.score
        gate_emergency == gate.emergency
        has_emergency_intent == label \in EMERGENCY_LABELS
        recordatorio_by_keyword == FactsOf(text).keyword_recordatorio
    IN  IF gate_emergency \/ has_emergency_intent
        THEN FlowDecision("emergencia", PROMPT_EMERGENCY,
                 IF gate_emergency THEN <<"gate_emergency">> ELSE <<"intent_emergency">>,
                 "local")
        ELSE IF label = "recordatorio" /\ score >= SCORE_RECORDATORIO
        THEN FlowDecision("recordatorio", <<"Entendido. Que debo recordar y a que hora?">>,
                 <<"intent_recordatorio">>, "local")
        ELSE IF recordatorio_by_keyword /\ score <= SCORE_KEYWORD
        THEN FlowDecision("recordatorio",
                 <<"Te ayudo a guardar un recordatorio. Que debo recordar y cuando?">>,
                 <<"keyword_recordatorio">>, "local")
        ELSE IF label \in CONSULTA_LABELS
        THEN FlowDecision("consulta_informacion",
                 <<"Claro, dime que informacion necesitas y te apoyo.">>,
                 <<"intent_consulta">>, "local")
        ELSE IF label \in ACOMP_LABELS
        THEN FlowDecision("acompanamiento_social",
                 <<"Estoy aqui contigo. Quieres contarme mas o necesitas apoyo en algo?">>,
                 <<"intent_acompanamiento">>, "local")
        ELSE FlowDecision("acompanamiento_social",
                 <<"Estoy aqui para ayudarte. Como puedo apoyarte?">>,
                 <<"fallback_acompanamiento">>, "local")

\* ConversationOrchestrator.decide_flow_local
decide_flow_local(text, intent, gate) ==
    LET label == LabelOf(intent)
        score == intent.score
        gate_emergency == gate.emergency
        has_emergency_intent == label \in EMERGENCY_LABELS
        recordatorio_by_keyword == FactsOf(text).keyword_recordatorio
    IN  IF gate_emergency \/ has_emergency_intent
        THEN FlowDecision("emergencia", PROMPT_EMERGENCY,
                 IF gate_emergency THEN <<"gate_emergency">> ELSE <<"intent_emergency">>,
                 "local")
        ELSE IF label = "recordatorio" /\ score >= SCORE_RECORDATORIO
        THEN FlowDecision("recordatorio", <<"Entendido. Que debo recordar y a que hora?">>,
                 <<"intent_recordatorio">>, "local")
        ELSE IF recordatorio_by_keyword /\ score < SCORE_KEYWORD
        THEN FlowDecision("recordatorio",
                 <<"Te ayudo a guardar un recordatorio. Que debo recordar y cuando?">>,
                 <<"keyword_recordatorio">>, "local")
        ELSE IF label \in CONSULTA_LABELS
        THEN FlowDecision("consulta_informacion",
                 <<"Claro, dime que informacion necesitas y te apoyo.">>,
                 <<"intent_consulta">>, "local")
        ELSE IF label \in ACOMP_LABELS
        THEN FlowDecision("acompanamiento_social",
                 <<"Estoy aqui contigo. Quieres contarme mas o necesitas apoyo en algo?">>,
                 <<"intent_acompanamiento">>, "local")
        ELSE FlowDecision("acompanamiento_social",
                 <<"Estoy aqui para ayudarte. Como puedo apoyarte?">>,
                 <<"fallback_acompanamiento">>, "local")

\* str.strip(): drop the leading and trailing white space
RECURSIVE LStrip(_)
LStrip(txt) == IF txt # <<>> /\ IsSpace(Head(txt)) THEN LStrip(Tail(txt)) ELSE txt

RECURSIVE RStrip(_)
RStrip(txt) ==
    IF txt # <<>> /\ IsSpace(txt[Len(txt)]) THEN RStrip(SubSeq(txt, 1, Len(txt) - 1)) ELSE txt

Strip(txt) == RStrip(LStrip(txt))

\* FlowAssistant.suggest that decodes the flow without looking it up in
\* ALLOWED_FLOWS: a name it does not know comes back as it is
suggest_unchecked(enabled, llm) ==
    IF ~ enabled THEN Absent
    ELSE IF llm.kind # "json" THEN Absent
    ELSE LET flow == Lower(Strip(llm.flow))
         IN  Some(FlowDecision(
                      IF \E f \in ALLOWED_FLOWS : FlowChars[f] = flow
                      THEN CHOOSE f \in ALLOWED_FLOWS : FlowChars[f] = flow
                      ELSE "bloqueado",
                      llm.next_prompt,
                      <<"llm_validated (corrected=", IF llm.corrected THEN "True" ELSE "False", ")">>,
                      "llm"))

\* FlowAssistant.suggest that answers a fallback decision where the call
\* fails or the reply cannot be used
suggest_with_fallback(enabled, llm) ==
    IF ~ enabled THEN Absent
    ELSE LET flow == Lower(Strip(llm.flow))
         IN  IF llm.kind # "json" \/ ~ \E f \in ALLOWED_FLOWS : FlowChars[f] = flow
             THEN Some(FlowDecision("acompanamiento_social", NoPrompt, <<"llm_unavailable">>,
                                    "fallback"))
             ELSE Some(FlowDecision(
                      CHOOSE f \in ALLOWED_FLOWS : FlowChars[f] = flow,
                      llm.next_prompt,
                      <<"llm_validated (corrected=", IF llm.corrected THEN "True" ELSE "False", ")">>,
                      "llm"))

\* FlowAssistant.suggest.  llm is the outcome of the completion call:
\* kind "raises" (transport error, timeout), "invalid" (content json.loads
\* rejects or that is no object) or "json" with the fields of the object.
suggest(enabled, llm) ==
    IF ~ enabled THEN Absent
    ELSE IF llm.kind # "json" THEN Absent
    ELSE LET flow == Lower(Strip(llm.flow))
         IN  IF ~ \E f \in ALLOWED_FLOWS : FlowChars[f] = flow THEN Absent
             ELSE Some(FlowDecision(
                      CHOOSE f \in ALLOWED_FLOWS : FlowChars[f] = flow,
                      llm.next_prompt,
                      <<"llm_validated (corrected=", IF llm.corrected THEN "True" ELSE "False", ")">>,
                      "llm"))

\* The cases of a merge whose two opinions differ, in the order given:
\* reminder_first puts the reminder case before the emergency case.
merge_disagreeing(local_decision, llm, reminder_first) ==
    LET local_flow == local_decision.flow
        llm_flow == llm.flow
        either(f) == local_flow = f \/ llm_flow = f
        kept(f, source) ==
            FlowDecision(f, OrElse(llm.next_prompt, local_decision.next_prompt),
                <<f \o "_", IF llm_flow = f THEN llm_flow ELSE "local">>, source)
    IN  IF reminder_first /\ either("recordatorio")
        THEN kept("recordatorio", "hybrid+preservation")
        ELSE IF either("emergencia") THEN kept("emergencia", "hybrid+safety")
        ELSE IF either("recordatorio") THEN kept("recordatorio", "hybrid+preservation")
        ELSE FlowDecision(llm_flow, llm.next_prompt,
                 <<"llm_corrected_local (local=", local_flow, ", llm=", llm_flow, ")">>,
                 "hybrid+corrected")

\* merge_flow_decisions with the reminder case tried before the emergency case
merge_reminder_first(local_decision, llm_decision) ==
    IF llm_decision = Absent THEN local_decision
    ELSE IF local_decision.flow = llm_decision[1].flow
    THEN FlowDecision(local_decision.flow, local_decision.next_prompt,
             local_decision.reason \o <<"+llm_validated">>, "hybrid+validated")
    ELSE merge_disagreeing(local_decision, llm_decision[1], TRUE)

\* merge_flow_decisions that tags the local decision it returns alone
merge_retagging_local(local_decision, llm_decision) ==
    IF llm_decision = Absent THEN [local_decision EXCEPT !.source = "hybrid+validated"]
    ELSE IF local_decision.flow = llm_decision[1].flow
    THEN FlowDecision(local_decision.flow, local_decision.next_prompt,
             local_decision.reason \o <<"+llm_validated">>, "hybrid+validated")
    ELSE merge_disagreeing(local_decision, llm_decision[1], FALSE)

\* merge_flow_decisions whose consensus takes the prompt of the advisory
merge_advisory_prompt(local_decision, llm_decision) ==
    IF llm_decision = Absent THEN local_decision
    ELSE IF local_decision.flow = llm_decision[1].flow
    THEN FlowDecision(local_decision.flow, llm_decision[1].next_prompt,
             local_decision.reason \o <<"+llm_validated">>, "hybrid+validated")
    ELSE merge_disagreeing(local_decision, llm_decision[1], FALSE)

\* merge_flow_decisions without the reminder case: a disagreement with no
\* emergency in it goes to the advisory
merge_without_preservation(local_decision, llm_decision) ==
    IF llm_decision = Absent THEN local_decision
    ELSE LET llm == llm_decision[1]
             local_flow == local_decision.flow
             llm_flow == llm.flow
         IN  IF local_flow = llm_flow
             THEN FlowDecision(local_flow, local_decision.next_prompt,
                      local_decision.reason \o <<"+llm_validated">>, "hybrid+validated")
             ELSE IF local_flow = "emergencia" \/ llm_flow = "emergencia"
             THEN FlowDecision("emergencia",
                      OrElse(llm.next_prompt, local_decision.next_prompt),
                      <<"emergencia_", IF llm_flow = "emergencia" THEN llm_flow ELSE "local">>,
                      "hybrid+safety")
             ELSE FlowDecision(llm_flow, llm.next_prompt,
                      <<"llm_corrected_local (local=", local_flow, ", llm=", llm_flow, ")">>,
                      "hybrid+corrected")

\* merge_flow_decisions whose last case keeps the flow and prompt of the
\* local decision
merge_trusting_local(local_decision, llm_decision) ==
    IF llm_decision = Absent THEN local_decision
    ELSE IF local_decision.flow = llm_decision[1].flow
    THEN FlowDecision(local_decision.flow, local_decision.next_prompt,
             local_decision.reason \o <<"+llm_validated">>, "hybrid+validated")
    ELSE IF \/ local_decision.flow \in {"emergencia", "recordatorio"}
            \/ llm_decision[1].flow \in {"emergencia", "recordatorio"}
    THEN merge_disagreeing(local_decision, llm_decision[1], FALSE)
    ELSE FlowDecision(local_decision.flow, local_decision.next_prompt,
             <<"llm_corrected_local (local=", local_decision.flow, ", llm=",
               llm_decision[1].flow, ")">>,
             "hybrid+corrected")

\* merge_flow_decisions whose last case returns the advisory decision as it
\* came, with the advisory's own source
merge_returning_advisory(local_decision, llm_decision) ==
    IF llm_decision = Absent THEN local_decision
    ELSE IF local_decision.flow = llm_decision[1].flow
    THEN FlowDecision(local_decision.flow, local_decision.next_prompt,
             local_decision.reason \o <<"+llm_validated">>, "hybrid+validated")
    ELSE IF \/ local_decision.flow \in {"emergencia", "recordatorio"}
            \/ llm_decision[1].flow \in {"emergencia", "recordatorio"}
    THEN merge_disagreeing(local_decision, llm_decision[1], FALSE)
    ELSE llm_decision[1]

\* ConversationOrchestrator.merge_flow_decisions (intent_score is unused there)
merge_flow_decisions(local_decision, llm_decision) ==
    IF llm_decision = Absent THEN local_decision
    ELSE LET llm == llm_decision[1]
             local_flow == local_decision.flow
             llm_flow == llm.flow
         IN  IF local_flow = llm_flow
             THEN FlowDecision(local_flow, local_decision.next_prompt,
                      local_decision.reason \o <<"+llm_validated">>, "hybrid+validated")
             ELSE IF local_flow = "emergencia" \/ llm_flow = "emergencia"
             THEN FlowDecision("emergencia",
                      OrElse(llm.next_prompt, local_decision.next_prompt),
                      <<"emergencia_", IF llm_flow = "emergencia" THEN llm_flow ELSE "local">>,
                      "hybrid+safety")
             ELSE IF local_flow = "recordatorio" \/ llm_flow = "recordatorio"
             THEN FlowDecision("recordatorio",
                      OrElse(llm.next_prompt, local_decision.next_prompt),
                      <<"recordatorio_", IF llm_flow = "recordatorio" THEN llm_flow ELSE "local">>,
                      "hybrid+preservation")
             ELSE FlowDecision(llm_flow, llm.next_prompt,
                      <<"llm_corrected_local (local=", local_flow, ", llm=", llm_flow, ")">>,
                      "hybrid+corrected")

\* _handle_emergency that looks for the confirmation words first
handle_emergency_confirm_first(text, decision) ==
    LET said == FactsOf(text)
    IN  IF said.emergency_confirm
        THEN [decision EXCEPT
                 !.next_prompt = <<"Procedo a avisar a tu contacto de emergencia o servicios de urgencia. Confirmas?">>,
                 !.reason = <<"emergencia_confirm">>]
        ELSE IF said.emergency_cancel
        THEN [decision EXCEPT
                 !.next_prompt = <<"Entendido, cancelo la alerta. Si vuelves a sentirte mal, avisa de inmediato.">>,
                 !.reason = <<"emergencia_cancel">>]
        ELSE [decision EXCEPT
                 !.next_prompt = <<"Es una emergencia? Llamo a tu contacto de emergencia o a servicios de urgencia.">>,
                 !.reason = <<"emergencia_check">>]

\* ConversationOrchestrator._handle_emergency
handle_emergency(text, decision) ==
    LET said == FactsOf(text)
    IN  IF said.emergency_cancel
        THEN [decision EXCEPT
                 !.next_prompt = <<"Entendido, cancelo la alerta. Si vuelves a sentirte mal, avisa de inmediato.">>,
                 !.reason = <<"emergencia_cancel">>]
        ELSE IF said.emergency_confirm
        THEN [decision EXCEPT
                 !.next_prompt = <<"Procedo a avisar a tu contacto de emergencia o servicios de urgencia. Confirmas?">>,
                 !.reason = <<"emergencia_confirm">>]
        ELSE [decision EXCEPT
                 !.next_prompt = <<"Es una emergencia? Llamo a tu contacto de emergencia o a servicios de urgencia.">>,
                 !.reason = <<"emergencia_check">>]

(***************************************************************************)
(* The record store (repositories/db_models.py, repositories/repository.py)*)
(***************************************************************************)
Devices == {"d1", "d2"}

Sessions == {"s1", "s2"}

REMINDER_STATUSES == {"draft", "confirmed", "cancelled", "done"}

EMERGENCY_STATUSES == {"detected", "confirming", "escalated", "cancelled", "resolved"}

\* the columns of the tables Reminder and EmergencyEvent
REMINDER_COLUMNS ==
    {"id", "device_id", "title", "due_at", "timezone", "status", "created_at", "updated_at"}

EMERGENCY_COLUMNS ==
    {"id", "device_id", "status", "contact_name", "reason", "action", "created_at", "resolved_at"}

\* Optional ids and timestamps: None is 0, ids are positions 1, 2, ... in
\* created_at order and due times are hours after an epoch, from 1 on.
NoId == 0

NoDue == 0

\* bool(session_id) of an Optional[str]
HasSession(session_id) == session_id # None /\ session_id # ""

\* The result of a call: the value returned, or raised = TRUE.
Returned(v) == [raised |-> FALSE, value |-> v]

Raised == [raised |-> TRUE, value |-> NoId]

\* ensure_device
ensure_device(devs, device_id) ==
    IF devs[device_id] # Absent THEN devs
    ELSE [devs EXCEPT ![device_id] = Some([contact_name |-> None, contact_phone |-> None])]

\* get_device
get_device(devs, device_id) == devs[device_id]

\* The row a table constructor builds from keyword arguments: a SQLModel
\* table model keeps the keywords that are columns and drops the others.
TableRow(columns, kwargs) == [k \in (DOMAIN kwargs) \cap columns |-> kwargs[k]]

\* create_emergency_event: the new table and the id, or the ValueError.
\* session_arg is no column: it records the session_id the caller passed,
\* which the table drops; no operation reads it.
create_emergency_event(evs, device_id, status, session_id, action) ==
    IF status \notin EMERGENCY_STATUSES THEN [raised |-> TRUE, events |-> evs, id |-> NoId]
    ELSE LET row == TableRow(EMERGENCY_COLUMNS,
                        [device_id |-> device_id, session_id |-> session_id,
                         status |-> status, action |-> action])
         IN  [ raised |-> FALSE,
               events |-> Append(evs, [device_id |-> row.device_id, status |-> row.status,
                                       action |-> row.action, session_arg |-> session_id]),
               id     |-> Len(evs) + 1 ]

\* update_emergency_status that writes the status without looking at it
update_emergency_status_unchecked(evs, event_id, status, action) ==
    IF event_id \notin 1..Len(evs) THEN [raised |-> FALSE, events |-> evs, ok |-> FALSE]
    ELSE [ raised |-> FALSE,
           events |-> [evs EXCEPT ![event_id] =
                          [@ EXCEPT !.status = status,
                                    !.action = IF action \notin {None, ""} THEN action ELSE @]],
           ok     |-> TRUE ]

\* update_emergency_status: the new table and the boolean returned
update_emergency_status(evs, event_id, status, action) ==
    IF status \notin EMERGENCY_STATUSES THEN [raised |-> TRUE, events |-> evs, ok |-> FALSE]
    ELSE IF event_id \notin 1..Len(evs) THEN [raised |-> FALSE, events |-> evs, ok |-> FALSE]
    ELSE [ raised |-> FALSE,
           events |-> [evs EXCEPT ![event_id] =
                          [@ EXCEPT !.status = status,
                                    !.action = IF action \notin {None, ""} THEN action ELSE @]],
           ok     |-> TRUE ]

IsOpen(ev) == ev.status \notin {"resolved", "cancelled"}

\* the last element of a non-empty set of ids: ORDER BY created_at DESC LIMIT 1
Latest(ids) == IF ids = {} THEN NoId ELSE CHOOSE i \in ids : \A j \in ids : j <= i

\* get_latest_open_emergency: filtering on EmergencyEvent.session_id raises
\* AttributeError when the table has no such column.
get_latest_open_emergency(evs, device_id, session_id) ==
    IF HasSession(session_id) /\ "session_id" \notin EMERGENCY_COLUMNS THEN Raised
    ELSE Returned(Latest({i \in 1..Len(evs) :
                     /\ evs[i].device_id = device_id
                     /\ HasSession(session_id) => evs[i].session_arg = session_id
                     /\ IsOpen(evs[i])}))

\* get_active_emergency_for_device that looks at the latest event of the
\* device only
get_active_emergency_latest_only(evs, device_id) ==
    LET latest == Latest({i \in 1..Len(evs) : evs[i].device_id = device_id})
    IN  IF latest # NoId /\ IsOpen(evs[latest]) THEN latest ELSE NoId

\* get_active_emergency_for_device: the id of the emergency reported, or NoId
get_active_emergency_for_device(evs, device_id) ==
    get_latest_open_emergency(evs, device_id, None).value

\* The keyword parameters of the reminder functions of the repository.
CREATE_REMINDER_PARAMS == {"device_id", "title", "due_at", "timezone", "status"}

GET_LATEST_REMINDER_PARAMS == {"device_id"}

\* create_reminder
create_reminder(rems, device_id, title, due_at, status) ==
    IF status \notin REMINDER_STATUSES THEN [raised |-> TRUE, reminders |-> rems, id |-> NoId]
    ELSE [ raised    |-> FALSE,
           reminders |-> Append(rems, [device_id |-> device_id, title |-> title,
                                       due_at |-> due_at, status |-> status]),
           id        |-> Len(rems) + 1 ]

\* update_reminder_status
update_reminder_status(rems, reminder_id, status) ==
    IF status \notin REMINDER_STATUSES THEN [raised |-> TRUE, reminders |-> rems, ok |-> FALSE]
    ELSE IF reminder_id \notin 1..Len(rems) THEN [raised |-> FALSE, reminders |-> rems, ok |-> FALSE]
    ELSE [ raised    |-> FALSE,
           reminders |-> [rems EXCEPT ![reminder_id].status = status],
           ok        |-> TRUE ]

\* update_reminder_fields: an argument that is None leaves the column alone
update_reminder_fields(rems, reminder_id, title, due_at, status) ==
    IF reminder_id \notin 1..Len(rems) THEN [raised |-> FALSE, reminders |-> rems, ok |-> FALSE]
    ELSE IF status # None /\ status \notin REMINDER_STATUSES
    THEN [raised |-> TRUE, reminders |-> rems, ok |-> FALSE]
    ELSE [ raised    |-> FALSE,
           reminders |-> [rems EXCEPT ![reminder_id] =
                             [@ EXCEPT !.title  = IF title # Absent THEN title[1] ELSE @,
                                       !.due_at = IF due_at # NoDue THEN due_at ELSE @,
                                       !.status = IF status # None THEN status ELSE @]],
           ok        |-> TRUE ]

\* get_latest_reminder
get_latest_reminder(rems, device_id) ==
    Latest({i \in 1..Len(rems) : rems[i].device_id = device_id})

WINDOW_HOURS == 24

SECONDS_PER_HOUR == 3600

AbsDiff(a, b) == IF a >= b THEN a - b ELSE b - a

\* find_similar_reminder: filtering on Reminder.session_id raises
\* AttributeError when the table has no such column.
find_similar_reminder(rems, device_id, title, due_at, session_id) ==
    IF HasSession(session_id) /\ "session_id" \notin REMINDER_COLUMNS THEN Raised
    ELSE LET candidates == {i \in 1..Len(rems) :
                                /\ rems[i].device_id = device_id
                                /\ title # <<>> => rems[i].title = title}
             near == {i \in candidates :
                         /\ rems[i].due_at # NoDue
                         /\ AbsDiff(rems[i].due_at, due_at) * SECONDS_PER_HOUR
                                <= WINDOW_HOURS * SECONDS_PER_HOUR}
         IN  IF due_at # NoDue /\ near # {} THEN Returned(Latest(near))
             ELSE Returned(Latest(candidates))

\* cleanup_reminder_duplicates that does not select on the device
cleanup_reminder_duplicates_any_device(rems, device_id, title, due_at, keep_id) ==
    IF title = <<>> \/ due_at = NoDue THEN rems
    ELSE [i \in 1..Len(rems) |->
             IF /\ rems[i].title = title
                /\ rems[i].due_at = due_at
                /\ i # keep_id
             THEN [rems[i] EXCEPT !.status = "cancelled"]
             ELSE rems[i]]

\* cleanup_reminder_duplicates
cleanup_reminder_duplicates(rems, device_id, title, due_at, keep_id) ==
    IF title = <<>> \/ due_at = NoDue THEN rems
    ELSE [i \in 1..Len(rems) |->
             IF /\ rems[i].device_id = device_id
                /\ rems[i].title = title
                /\ rems[i].due_at = due_at
                /\ i # keep_id
             THEN [rems[i] EXCEPT !.status = "cancelled"]
             ELSE rems[i]]

(***************************************************************************)
(* A chat turn (services/orchestrator.py process, api/chat.py chat)        *)
(***************************************************************************)
\* status_map of the emergency flow, with its default
EmergencyStatusMap(reason) ==
    CASE reason = <<"emergencia_cancel">>    -> "cancelled"
      [] reason = <<"emergencia_confirm">>   -> "escalated"
      [] reason = <<"emergencia_check">>     -> "confirming"
      [] reason = <<"emergencia_contacto">>  -> "confirming"
      [] reason = <<"emergencia_servicios">> -> "confirming"
      [] reason = <<"gate_emergency">>       -> "detected"
      [] reason = <<"intent_emergency">>     -> "detected"
      [] OTHER -> "detected"

\* status_map of the reminder flow, with its default
ReminderStatusMap(reason) ==
    CASE reason = <<"recordatorio_cancel">> -> "cancelled"
      [] OTHER -> "draft"

\* The emergency branch of the refinement: the contact of the device picks
\* the action, then _handle_emergency rewrites prompt and reason.
refine_emergency(text, decision, dev, dev_raised) ==
    LET contact_phone == IF dev_raised \/ dev = Absent THEN None ELSE dev[1].contact_phone
        contact_name  == IF dev_raised \/ dev = Absent THEN None ELSE dev[1].contact_name
        has_phone     == contact_phone \notin {None, ""}
        with_contact  ==
            IF has_phone
            THEN [decision EXCEPT
                     !.next_prompt = <<"Emergencia detectada. Llamo a tu contacto de emergencia (",
                                       IF contact_name \in {None, ""} THEN "contacto" ELSE contact_name,
                                       " al ", contact_phone, ")?">>,
                     !.reason = <<"emergencia_contacto">>]
            ELSE [decision EXCEPT
                     !.next_prompt = <<"Emergencia detectada. Llamo a servicios de emergencia?">>,
                     !.reason = <<"emergencia_servicios">>]
    IN  [ decision               |-> handle_emergency(text, with_contact),
          emergency_action       |-> IF has_phone THEN "contact_family" ELSE "call_services",
          emergency_contact_name |-> contact_name ]

\* The reminder branch of the refinement with the slots looked at before
\* the cancellation phrasing
refine_reminder_slots_first(text, decision) ==
    LET slots == FactsOf(text).slots
    IN  IF slots.has_content /\ slots.has_time
        THEN [decision EXCEPT
                 !.next_prompt = <<"Listo. Confirmo el recordatorio asi? Si no, dime cancelar.">>,
                 !.reason = <<"recordatorio_confirm">>]
        ELSE IF FactsOf(text).is_cancel
        THEN [decision EXCEPT
                 !.next_prompt = <<"Entendido, cancelo el recordatorio. Te ayudo con algo mas?">>,
                 !.reason = <<"recordatorio_cancel">>]
        ELSE IF slots.has_content /\ ~ slots.has_time
        THEN [decision EXCEPT
                 !.next_prompt = <<"Cuando debo recordartelo? (ej. hoy 5pm, manana 9:00)">>,
                 !.reason = <<"recordatorio_pedir_hora">>]
        ELSE [decision EXCEPT
                 !.next_prompt = <<"Que debo recordar y cuando? (ej. tomar medicina a las 9am)">>,
                 !.reason = <<"recordatorio_pedir_contenido">>]

\* The reminder branch of the refinement
refine_reminder(text, decision) ==
    IF FactsOf(text).is_cancel
    THEN [decision EXCEPT
             !.next_prompt = <<"Entendido, cancelo el recordatorio. Te ayudo con algo mas?">>,
             !.reason = <<"recordatorio_cancel">>]
    ELSE LET slots == FactsOf(text).slots
         IN  IF slots.has_content /\ slots.has_time
             THEN [decision EXCEPT
                      !.next_prompt = <<"Listo. Confirmo el recordatorio asi? Si no, dime cancelar.">>,
                      !.reason = <<"recordatorio_confirm">>]
             ELSE IF slots.has_content /\ ~ slots.has_time
             THEN [decision EXCEPT
                      !.next_prompt = <<"Cuando debo recordartelo? (ej. hoy 5pm, manana 9:00)">>,
                      !.reason = <<"recordatorio_pedir_hora">>]
             ELSE [decision EXCEPT
                      !.next_prompt = <<"Que debo recordar y cuando? (ej. tomar medicina a las 9am)">>,
                      !.reason = <<"recordatorio_pedir_contenido">>]

\* target_status of the reminder branch: the status of the reason, which
\* confirmation phrasing replaces by confirmed
reminder_target_status(text, decision) ==
    IF FactsOf(text).is_confirm THEN "confirmed" ELSE ReminderStatusMap(decision.reason)

\* The keyword arguments process passes to the reminder functions
ProcessCreateReminderKwargs ==
    { "device_id", "session_id", "title", "due_at", "timezone", "status", "notes", "meta",
      "source_message_id" }

ProcessGetLatestReminderKwargs == {"device_id", "session_id"}

\* A call raises TypeError when it passes a keyword the function lacks.
AcceptsKwargs(params, kwargs) == kwargs \subseteq params

\* The loop over the candidates of a reminder turn, from candidate k on.  It
\* ends at the first call that raises, keeping what was written before.
\* fail names the repository calls the store fails in this turn.
RECURSIVE upsert_candidates(_, _, _, _, _)
upsert_candidates(rems, ids, list, k, ctx) ==
    IF k > Len(list) THEN [reminders |-> rems, reminder_ids |-> ids, raised |-> FALSE]
    ELSE
    LET rem    == list[k]
        title  == IF rem.title # <<>> THEN rem.title ELSE ctx.text
        due_at == rem.due_at
        found  == find_similar_reminder(rems, ctx.device_id, title, due_at, ctx.session_id)
        stop   == [reminders |-> rems, reminder_ids |-> ids, raised |-> TRUE]
    IN  IF found.raised \/ ctx.fail = "read" THEN stop
        ELSE IF found.value # NoId
        THEN LET upd == update_reminder_status(rems, found.value, ctx.target_status)
             IN  IF upd.raised \/ ctx.fail = "write" THEN stop
                 ELSE upsert_candidates(
                          IF ctx.fail = "cleanup" THEN upd.reminders
                          ELSE cleanup_reminder_duplicates(upd.reminders, ctx.device_id, title,
                                                           due_at, found.value),
                          Append(ids, found.value), list, k + 1, ctx)
        ELSE IF ~ AcceptsKwargs(CREATE_REMINDER_PARAMS, ProcessCreateReminderKwargs) THEN stop
        ELSE LET new == create_reminder(rems, ctx.device_id, title, due_at, ctx.target_status)
             IN  IF new.raised \/ ctx.fail = "write" THEN stop
                 ELSE upsert_candidates(
                          IF ctx.fail = "cleanup" THEN new.reminders
                          ELSE cleanup_reminder_duplicates(new.reminders, ctx.device_id, title,
                                                           due_at, new.id),
                          Append(ids, new.id), list, k + 1, ctx)

\* The reminder branch of the persistence block of process
persist_reminders(rems, device_id, session_id, text, decision, cands, fail) ==
    LET target_status == reminder_target_status(text, decision)
        list == IF cands = <<>> THEN <<[title |-> text, due_at |-> NoDue]>> ELSE cands
        stop == [reminders |-> rems, reminder_ids |-> <<>>, raised |-> TRUE]
    IN  IF target_status = "cancelled"
        THEN IF ~ AcceptsKwargs(GET_LATEST_REMINDER_PARAMS, ProcessGetLatestReminderKwargs)
                  \/ fail = "read"
             THEN stop
             ELSE LET existing == get_latest_reminder(rems, device_id)
                      upd == update_reminder_status(rems, existing, target_status)
                  IN  IF existing = NoId
                      THEN [reminders |-> rems, reminder_ids |-> <<>>, raised |-> FALSE]
                      ELSE IF upd.raised \/ fail = "write" THEN stop
                      ELSE [reminders |-> upd.reminders, reminder_ids |-> <<existing>>,
                            raised |-> FALSE]
        ELSE upsert_candidates(rems, <<>>, list, 1,
                 [device_id |-> device_id, session_id |-> session_id, text |-> text,
                  target_status |-> target_status, fail |-> fail])

\* The emergency branch of the persistence block of process
persist_emergency(evs, device_id, session_id, decision, emergency_action, fail) ==
    LET target_status == EmergencyStatusMap(decision.reason)
        existing_event == get_latest_open_emergency(evs, device_id, session_id)
        stop == [events |-> evs, emergency_event_id |-> NoId, raised |-> TRUE]
    IN  IF existing_event.raised \/ fail = "read" THEN stop
        ELSE IF existing_event.value # NoId
        THEN LET upd == update_emergency_status(evs, existing_event.value, target_status,
                                                emergency_action)
             IN  IF upd.raised \/ fail = "write" THEN stop
                 ELSE [events |-> upd.events, emergency_event_id |-> existing_event.value,
                       raised |-> FALSE]
        ELSE LET new == create_emergency_event(evs, device_id, target_status, session_id,
                                               emergency_action)
             IN  IF new.raised \/ fail = "write" THEN stop
                 ELSE [events |-> new.events, emergency_event_id |-> new.id, raised |-> FALSE]

REPLY_EMERGENCY == "Protocolo de emergencia activado."

REPLY_BLOCKED == "Mensaje bloqueado por seguridad. Si necesitas ayuda urgente, contacta a un servicio de emergencia."

\* what predictors.generate_reply returns: text the model does not know
REPLY_GENERATED == "<generate_reply>"

\* The dictionary process returns, with the request it answers (device,
\* session, text, gate verdict, candidates, failure of the store) and the
\* trace of the turn: the calls of generate_reply made, whether the
\* persistence block ended in its except clause, and the status it aimed at.
Response(in, decision, emergency, reply, decoder, reminder_ids, event_id, calls, raised, target) ==
    [ kind               |-> "turn",
      device_id          |-> in.device_id,
      session_id         |-> in.session_id,
      text               |-> in.text,
      gate               |-> in.gate,
      fail               |-> in.fail,
      cands              |-> in.cands,
      persist_raised     |-> raised,
      target_status      |-> target,
      flow               |-> decision.flow,
      emergency          |-> emergency,
      next_prompt        |-> decision.next_prompt,
      flow_source        |-> decision.source,
      flow_reason        |-> decision.reason,
      reply              |-> reply,
      decoder            |-> decoder,
      reminder_ids       |-> reminder_ids,
      emergency_event_id |-> event_id,
      generate_reply_calls |-> calls ]

\* process_gate_emergency that answers the id of an event it failed to write
process_gate_emergency_keeps_id(in, evs, rems) ==
    LET decision == FlowDecision("emergencia", PROMPT_EMERGENCY, <<"gate_emergency">>, "gate")
        new  == create_emergency_event(evs, in.device_id, "detected", in.session_id, None)
        kept == ~ new.raised /\ in.fail # "write"
    IN  [ raised    |-> FALSE,
          events    |-> IF kept THEN new.events ELSE evs,
          reminders |-> rems,
          resp      |-> Response(in, decision, TRUE, REPLY_GENERATED, "<decoder>", <<>>,
                                 new.id, 1, ~ kept, "detected") ]

\* The branch of process for a message the gate denies and flags.  The
\* sentiment, emotion and entity calls are in a try whose handler puts
\* neutral values in their place, so in.cls_ok changes nothing here.
process_gate_emergency(in, evs, rems) ==
    LET decision == FlowDecision("emergencia", PROMPT_EMERGENCY, <<"gate_emergency">>, "gate")
        new  == create_emergency_event(evs, in.device_id, "detected", in.session_id, None)
        kept == ~ new.raised /\ in.fail # "write"
    IN  [ raised    |-> FALSE,
          events    |-> IF kept THEN new.events ELSE evs,
          reminders |-> rems,
          resp      |-> Response(in, decision, TRUE, REPLY_GENERATED, "<decoder>", <<>>,
                                 IF kept THEN new.id ELSE NoId, 1, ~ kept, "detected") ]

\* the branch of process for a message the gate denies without flagging
process_blocked(in, evs, rems) ==
    [ raised    |-> FALSE,
      events    |-> evs,
      reminders |-> rems,
      resp      |-> Response(in, FlowDecision("bloqueado", NoPrompt, <<"gate_block">>, "gate"),
                             in.gate.emergency, REPLY_BLOCKED, "gate", <<>>, NoId, 0, FALSE, None) ]

\* process past the gate: classification, decision, refinement, reply,
\* persistence, response
process_allowed(in, devs, evs, rems) ==
    IF ~ in.cls_ok THEN [raised |-> TRUE, events |-> evs, reminders |-> rems, resp |-> <<>>]
    ELSE
    LET local_decision == decide_flow_local(in.text, in.intent, in.gate)
        llm_decision   == IF in.enabled THEN suggest(in.enabled, in.llm) ELSE Absent
        merged         == merge_flow_decisions(local_decision, llm_decision)
        flow_source    == merged.source
        em             == refine_emergency(in.text, merged, get_device(devs, in.device_id), FALSE)
        decision       == IF merged.flow = "emergencia" THEN em.decision
                          ELSE IF merged.flow = "recordatorio" THEN refine_reminder(in.text, merged)
                          ELSE merged
        is_emergency   == decision.flow = "emergencia"
        pr == IF decision.flow = "recordatorio"
              THEN persist_reminders(rems, in.device_id, in.session_id, in.text, decision,
                                     in.cands, in.fail)
              ELSE [reminders |-> rems, reminder_ids |-> <<>>, raised |-> FALSE]
        pe == IF is_emergency
              THEN persist_emergency(evs, in.device_id, in.session_id, decision,
                                     em.emergency_action, in.fail)
              ELSE [events |-> evs, emergency_event_id |-> NoId, raised |-> FALSE]
    IN  [ raised    |-> FALSE,
          events    |-> pe.events,
          reminders |-> pr.reminders,
          resp      |-> Response(in, [decision EXCEPT !.source = flow_source],
                                 is_emergency \/ in.gate.emergency,
                                 IF is_emergency THEN REPLY_EMERGENCY ELSE REPLY_GENERATED,
                                 IF is_emergency THEN "emergency_protocol" ELSE "<decoder>",
                                 pr.reminder_ids, pe.emergency_event_id,
                                 IF is_emergency THEN 0 ELSE 1,
                                 pr.raised \/ pe.raised,
                                 IF is_emergency THEN EmergencyStatusMap(decision.reason)
                                 ELSE IF decision.flow = "recordatorio"
                                 THEN reminder_target_status(in.text, decision)
                                 ELSE None) ]

\* process that classifies the message before it looks at a denial
process_classifying_first(in, devs, evs, rems) ==
    IF ~ in.gate.allow
    THEN IF in.gate.emergency THEN process_gate_emergency(in, evs, rems)
         ELSE IF ~ in.cls_ok
         THEN [raised |-> TRUE, events |-> evs, reminders |-> rems, resp |-> <<>>]
         ELSE process_blocked(in, evs, rems)
    ELSE process_allowed(in, devs, evs, rems)

\* ConversationOrchestrator.process
process(in, devs, evs, rems) ==
    IF ~ in.gate.allow
    THEN IF in.gate.emergency THEN process_gate_emergency(in, evs, rems)
         ELSE process_blocked(in, evs, rems)
    ELSE process_allowed(in, devs, evs, rems)

(***************************************************************************)
(* Requests                                                                *)
(***************************************************************************)
\* the devices that chat
ChatDevices == {"d1"}

MaxEvents == 2

MaxReminders == 2

\* what the Safety Gate answers: predictors.safety_gate, and the gate the
\* smoke test installs, which allows a message it flags
Gates == [allow : BOOLEAN, emergency : BOOLEAN]

\* what predict_intent answers, scores in hundredths
Intents ==
    { [label |-> "emergencia_medica", score |-> 90],
      [label |-> "recordatorio", score |-> 90],
      [label |-> "recordatorio", score |-> 50],
      [label |-> "consulta_informacion", score |-> 90],
      [label |-> "saludo", score |-> 65],
      [label |-> "saludo", score |-> 70],
      [label |-> None, score |-> 0] }

NoIntent == [label |-> None, score |-> 0]

\* " Emergencia ", a reply that pads and capitalises the flow name
PADDED_EMERGENCIA_CHARS ==
    <<" ","E","m","e","r","g","e","n","c","i","a"," ">>

BLOQUEADO_CHARS ==
    <<"b","l","o","q","u","e","a","d","o">>

LlmPrompt == <<"Cuentame mas.">>

LlmReply(kind, flow, next_prompt, corrected) ==
    [kind |-> kind, flow |-> flow, next_prompt |-> next_prompt, corrected |-> corrected]

NoReply == LlmReply("raises", <<>>, NoPrompt, FALSE)

\* outcomes of the completion call of FlowAssistant.suggest
LlmReplies ==
    { NoReply,
      LlmReply("invalid", <<>>, NoPrompt, FALSE),
      LlmReply("json", EMERGENCIA_CHARS, LlmPrompt, TRUE),
      LlmReply("json", PADDED_EMERGENCIA_CHARS, NoPrompt, FALSE),
      LlmReply("json", RECORDATORIO_CHARS, LlmPrompt, TRUE),
      LlmReply("json", RECORDATORIO_CHARS, <<"">>, FALSE),
      LlmReply("json", ACOMP_CHARS, LlmPrompt, FALSE),
      LlmReply("json", CONSULTA_CHARS, NoPrompt, TRUE),
      LlmReply("json", BLOQUEADO_CHARS, LlmPrompt, TRUE),
      LlmReply("json", <<>>, LlmPrompt, FALSE) }

\* what extract_reminders answers (its NER and date parser are external)
Candidate(title, due_at) == [title |-> title, due_at |-> due_at]

TitleLuz == <<"pagar la luz">>

TitlePastilla == <<"tomar la pastilla azul">>

CandidateLists ==
    { <<>>,
      <<Candidate(TitleLuz, 9)>>,
      <<Candidate(TitleLuz, 9), Candidate(TitlePastilla, NoDue)>> }

\* the repository calls of the persistence block that fail in a turn
Fails == {"none", "read", "write"}

TurnInput(device_id, session_id, text, gate, cls_ok, intent, enabled, llm, cands, fail) ==
    [ device_id |-> device_id, session_id |-> session_id, text |-> text, gate |-> gate,
      cls_ok |-> cls_ok, intent |-> intent, enabled |-> enabled, llm |-> llm,
      cands |-> cands, fail |-> fail ]

\* The open event a turn of (device, session) finds at its start, by the
\* session each event was created for.
OpenEventOf(evs, device_id, session_id) ==
    Latest({i \in 1..Len(evs) : /\ evs[i].device_id = device_id
                                /\ evs[i].session_arg = session_id
                                /\ IsOpen(evs[i])})

\* The turn before this one was a reminder turn of the same device and
\* session with the same candidates, and the store did not fail in it.
Repeats(in, last) ==
    /\ last.kind = "turn"
    /\ last.flow = "recordatorio"
    /\ last.device_id = in.device_id
    /\ last.session_id = in.session_id
    /\ last.cands = in.cands
    /\ last.fail = "none"

\* The latest reminder of the device at the start of a turn, if it is a draft.
DraftOf(rems, device_id) ==
    LET latest == get_latest_reminder(rems, device_id)
    IN  IF latest # NoId /\ rems[latest].status = "draft" THEN latest ELSE NoId

\* What is kept of a turn beside its response: the state it started from
\* and what became of the advisory.
TurnTrace(in) ==
    [ events_before    |-> Len(events),
      open_before      |-> OpenEventOf(events, in.device_id, in.session_id),
      reminders_before |-> Len(reminders),
      draft_before     |-> DraftOf(reminders, in.device_id),
      repeated         |-> Repeats(in, resp),
      classification_failed |-> ~ in.cls_ok /\ (in.gate.allow \/ in.gate.emergency),
      advisory         |-> IF ~ in.enabled THEN "disabled"
                           ELSE IF suggest(in.enabled, in.llm) = Absent THEN "failed"
                           ELSE "given" ]

\* api/chat.py chat: ensure_device, then process; a turn that raises answers
\* 500 and writes nothing more
Chat(in) ==
    LET devs == ensure_device(devices, in.device_id)
    IN  \E out \in {process(in, devs, events, reminders)} :
            /\ Len(out.events) <= MaxEvents
            /\ Len(out.reminders) <= MaxReminders
            /\ devices' = devs
            /\ events' = out.events
            /\ reminders' = out.reminders
            /\ resp' = IF out.raised THEN [kind |-> "error", code |-> 500]
                       ELSE out.resp @@ TurnTrace(in)
            /\ UNCHANGED <<probe, facts>>

\* The turns drawn: the gate denies (Denied); every classification and
\* advisory outcome on a plain and on a keyword utterance (Decided); every
\* utterance in the emergency and in the reminder flow, with each failure
\* of the store (Refined).
DeniedInputs ==
    { in \in { TurnInput(d, s, TxtDolor, [allow |-> FALSE, emergency |-> e], c, NoIntent, FALSE,
                          NoReply, <<>>, f) :
                  d \in ChatDevices, s \in Sessions, e \in BOOLEAN, c \in BOOLEAN,
                  f \in {"none", "write"} } :
        in.cls_ok \/ in.gate.emergency }

DecidedInputs ==
    { in \in { TurnInput(d, "s1", t, [allow |-> TRUE, emergency |-> e], c, i, en, l, <<>>, "none") :
                 d \in ChatDevices, t \in {TxtHola, TxtCita}, e \in BOOLEAN, c \in BOOLEAN,
                 i \in Intents, en \in BOOLEAN, l \in LlmReplies } :
        /\ in.cls_ok \/ in.intent = NoIntent
        /\ in.enabled \/ in.llm = NoReply }

RefinedInputs ==
    { TurnInput(d, "s1", t, [allow |-> TRUE, emergency |-> FALSE], TRUE, i, FALSE, NoReply, c, f) :
        d \in ChatDevices, t \in Texts,
        i \in {[label |-> "emergencia_medica", score |-> 90], [label |-> "recordatorio", score |-> 90]},
        c \in {<<Candidate(TitleLuz, 9)>>}, f \in Fails }

TurnInputs == DeniedInputs \cup DecidedInputs \cup RefinedInputs

\* POST /chat
ChatTurn == \E in \in TurnInputs : Chat(in)

\* api/devices.py register_device: the row ends with the contact given
RegisterDevice ==
    \E device_id \in ChatDevices :
        /\ devices' = [devices EXCEPT ![device_id] =
                          Some([contact_name |-> "Ana", contact_phone |-> "600111222"])]
        /\ resp' = [kind |-> "api", op |-> "register_device", code |-> 201]
        /\ UNCHANGED <<events, reminders, probe, facts>>

Idle == [kind |-> "none"]

Init ==
    /\ devices = [d \in Devices |-> Absent]
    /\ reminders = <<>>
    /\ events = <<>>
    /\ resp = Idle
    /\ probe = Idle
    /\ facts = TextFacts

Next == ChatTurn \/ RegisterDevice

Spec == Init /\ [][Next]_vars

(***************************************************************************)
(* The merge of the two opinions, applied to drawn decisions               *)
(***************************************************************************)
\* the decisions decide_flow_local returns, and decisions of every flow
\* without a prompt and with an empty one
MergeLocals ==
    { decide_flow_local(t, i, g) : t \in {TxtHola, TxtCita}, i \in Intents, g \in Gates }
    \cup { FlowDecision(f, p, <<"drawn">>, "local") : f \in ALLOWED_FLOWS, p \in {NoPrompt, <<"">>} }

\* the opinions suggest returns: none, or one per reply it accepts
MergeAdvisories == {Absent} \cup { suggest(TRUE, l) : l \in LlmReplies }

MergeProbe(local, llm, out, done) ==
    [kind |-> "merge", local |-> local, llm |-> llm, out |-> out, done |-> done]

InitMerge ==
    /\ devices = [d \in Devices |-> Absent]
    /\ reminders = <<>>
    /\ events = <<>>
    /\ resp = Idle
    /\ facts = TextFacts
    /\ \E local \in MergeLocals, llm \in MergeAdvisories :
           probe = MergeProbe(local, llm, Absent, FALSE)

\* the call merge_flow_decisions(local_decision, llm_decision, intent_score)
MergeStep ==
    /\ probe.kind = "merge"
    /\ ~ probe.done
    /\ probe' = MergeProbe(probe.local, probe.llm,
                           Some(merge_flow_decisions(probe.local, probe.llm)), TRUE)
    /\ UNCHANGED <<devices, reminders, events, resp, facts>>

NextMerge == MergeStep

SpecMerge == InitMerge /\ [][NextMerge]_vars

(***************************************************************************)
(* The reminder endpoints (api/reminders.py) beside the chat               *)
(***************************************************************************)
ApiResponse(op, code) == [kind |-> "api", op |-> op, code |-> code]

ReminderTitles == {TitleLuz, TitlePastilla}

ReminderDues == {NoDue, 9}

\* the ids a request names; one past the rows of the table is not found
ReminderIds == 1..MaxReminders

\* POST /reminders: ensure_device and create_reminder, no look-up before
PostReminder ==
    \E device_id \in Devices, title \in ReminderTitles, due_at \in ReminderDues,
       status \in REMINDER_STATUSES :
        LET new == create_reminder(reminders, device_id, title, due_at, status)
        IN  /\ Len(reminders) < MaxReminders
            /\ devices' = ensure_device(devices, device_id)
            /\ reminders' = new.reminders
            /\ resp' = ApiResponse("post_reminder", IF new.raised THEN 500 ELSE 200)
            /\ UNCHANGED <<events, probe, facts>>

\* PATCH /reminders/{reminder_id}
PatchReminder ==
    \E reminder_id \in ReminderIds, status \in REMINDER_STATUSES :
        LET upd == update_reminder_status(reminders, reminder_id, status)
        IN  /\ reminders' = upd.reminders
            /\ resp' = ApiResponse("patch_reminder", IF upd.ok THEN 200 ELSE 404)
            /\ UNCHANGED <<devices, events, probe, facts>>

\* PUT /reminders/{reminder_id}
PutReminder ==
    \E reminder_id \in ReminderIds, title \in {Absent} \cup {Some(t) : t \in ReminderTitles},
       due_at \in ReminderDues, status \in {None, "confirmed"} :
        LET upd == update_reminder_fields(reminders, reminder_id, title, due_at, status)
        IN  /\ reminders' = upd.reminders
            /\ resp' = ApiResponse("put_reminder", IF upd.ok THEN 200 ELSE 404)
            /\ UNCHANGED <<devices, events, probe, facts>>

\* DELETE /reminders/{reminder_id}
DeleteReminder ==
    \E reminder_id \in ReminderIds :
        LET upd == update_reminder_status(reminders, reminder_id, "cancelled")
        IN  /\ reminders' = upd.reminders
            /\ resp' = ApiResponse("delete_reminder", IF upd.ok THEN 200 ELSE 404)
            /\ UNCHANGED <<devices, events, probe, facts>>

\* a due time, in hours, more than WINDOW_HOURS after the due time 9
FarDue == 40

\* the reminder turns of the chat: a new reminder, its confirmation, its
\* cancellation
ReminderTurnInputs ==
    { TurnInput("d1", "s1", t, [allow |-> TRUE, emergency |-> FALSE], TRUE,
                [label |-> "recordatorio", score |-> 90], FALSE, NoReply, c, "none") :
        t \in {TxtLuz, TxtRecuerda, TxtCancela},
        c \in {<<>>, <<Candidate(TitleLuz, 9)>>, <<Candidate(TitleLuz, FarDue)>>} }

ReminderTurn == \E in \in ReminderTurnInputs : Chat(in)

NextReminder ==
    ReminderTurn \/ PostReminder \/ PatchReminder \/ PutReminder \/ DeleteReminder

SpecReminder == Init /\ [][NextReminder]_vars

(***************************************************************************)
(* process called on its own, with the session_id its signature defaults   *)
(* to, beside POST /reminders                                              *)
(***************************************************************************)
\* process(text, device_id=...): session_id is None, so no look-up filters
\* on the session
ProcessInputs ==
    { TurnInput("d1", None, t, [allow |-> TRUE, emergency |-> FALSE], TRUE,
                [label |-> "recordatorio", score |-> 90], FALSE, NoReply, c, f) :
        t \in {TxtLuz, TxtRecuerda}, c \in CandidateLists \cup {<<Candidate(TitleLuz, FarDue)>>},
        f \in Fails }

ProcessCall(in) ==
    \E out \in {process(in, devices, events, reminders)} :
        /\ Len(out.events) <= MaxEvents
        /\ Len(out.reminders) <= MaxReminders
        /\ events' = out.events
        /\ reminders' = out.reminders
        /\ resp' = IF out.raised THEN [kind |-> "raised"] ELSE out.resp @@ TurnTrace(in)
        /\ UNCHANGED <<devices, probe, facts>>

ProcessTurn == \E in \in ProcessInputs : ProcessCall(in)

NextProcess == ProcessTurn \/ PostReminder

SpecProcess == Init /\ [][NextProcess]_vars

(***************************************************************************)
(* The emergency endpoints (api/emergencies.py) beside the chat            *)
(***************************************************************************)
EmergencyIds == 1..MaxEvents

\* the protocol or action a request carries
EmergencyActions == {None, "call_family"}

\* POST /trigger-emergency: ensure_device and a detected event, no look-up
TriggerEmergency ==
    \E device_id \in ChatDevices, protocol \in {"call_family", "call_ambulance"} :
        LET new == create_emergency_event(events, device_id, "detected", None, protocol)
        IN  /\ Len(events) < MaxEvents
            /\ devices' = ensure_device(devices, device_id)
            /\ events' = new.events
            /\ resp' = ApiResponse("trigger_emergency", IF new.raised THEN 500 ELSE 201)
            /\ UNCHANGED <<reminders, probe, facts>>

\* POST /emergencies
PostEmergency ==
    \E device_id \in ChatDevices, status \in EMERGENCY_STATUSES, session_id \in {None, "s1"} :
        LET new == create_emergency_event(events, device_id, status, session_id, None)
        IN  /\ Len(events) < MaxEvents
            /\ devices' = ensure_device(devices, device_id)
            /\ events' = new.events
            /\ resp' = ApiResponse("create_emergency", IF new.raised THEN 500 ELSE 200)
            /\ UNCHANGED <<reminders, probe, facts>>

\* PATCH /emergencies/{event_id}: the first of the two routes registered
\* on the path, update_emergency
PatchEmergency ==
    \E event_id \in EmergencyIds, status \in EMERGENCY_STATUSES, action \in EmergencyActions :
        LET upd == update_emergency_status(events, event_id, status, action)
        IN  /\ events' = upd.events
            /\ resp' = ApiResponse("update_emergency", IF upd.ok THEN 200 ELSE 404)
            /\ UNCHANGED <<devices, reminders, probe, facts>>

\* DELETE /emergencies/{event_id}
DeleteEmergency ==
    \E event_id \in EmergencyIds :
        LET upd == update_emergency_status(events, event_id, "cancelled", None)
        IN  /\ events' = upd.events
            /\ resp' = ApiResponse("delete_emergency", IF upd.ok THEN 200 ELSE 404)
            /\ UNCHANGED <<devices, reminders, probe, facts>>

\* GET /emergency-status/{device_id}: ensure_device, then the active
\* emergency of the device or "ok"
GetEmergencyStatus ==
    \E device_id \in Devices :
        LET active_emergency == get_active_emergency_for_device(events, device_id)
        IN  /\ devices' = ensure_device(devices, device_id)
            /\ resp' = [ kind |-> "api", op |-> "get_emergency_status", code |-> 200,
                         device_id |-> device_id,
                         status |-> IF active_emergency # NoId THEN "emergency" ELSE "ok",
                         emergency_id |-> active_emergency ]
            /\ UNCHANGED <<events, reminders, probe, facts>>

\* the emergency turns of the chat: the gate's and the classifier's
EmergencyTurnInputs ==
    { TurnInput("d1", "s1", TxtDolor, [allow |-> FALSE, emergency |-> TRUE], TRUE, NoIntent,
                FALSE, NoReply, <<>>, "none") }
    \cup { TurnInput("d1", "s1", t, [allow |-> TRUE, emergency |-> FALSE], TRUE,
                     [label |-> "emergencia_medica", score |-> 90], FALSE, NoReply, <<>>, "none") :
             t \in {TxtCaida, TxtFalsa} }

EmergencyTurn == \E in \in EmergencyTurnInputs : Chat(in)

NextEmergency ==
    \/ EmergencyTurn \/ TriggerEmergency \/ PostEmergency \/ PatchEmergency \/ DeleteEmergency
    \/ GetEmergencyStatus

SpecEmergency == Init /\ [][NextEmergency]_vars

(***************************************************************************)
(* Two reminder turns in flight at once: each repository call of the loop  *)
(* of process is a transaction of its own, and the calls of the two turns  *)
(* interleave                                                              *)
(***************************************************************************)
RaceTurns == {1, 2}

\* the reminders of d1 in the table when the two turns start
RaceStores ==
    { <<>>,
      <<[device_id |-> "d1", title |-> TitleLuz, due_at |-> 9, status |-> "draft"]>>,
      <<[device_id |-> "d1", title |-> TitleLuz, due_at |-> 9, status |-> "cancelled"]>>,
      <<[device_id |-> "d1", title |-> TitleLuz, due_at |-> NoDue, status |-> "confirmed"]>>,
      <<[device_id |-> "d1", title |-> TitleLuz, due_at |-> 9, status |-> "draft"],
        [device_id |-> "d1", title |-> TitleLuz, due_at |-> 9, status |-> "draft"]>> }

\* where a turn stands in the loop body (530-557), and what it holds
RaceTurn(pc, found, keep_id, reminder_ids) ==
    [pc |-> pc, found |-> found, keep_id |-> keep_id, reminder_ids |-> reminder_ids]

RaceProbe(session_id, rem, target_status, turns) ==
    [kind |-> "race", session_id |-> session_id, rem |-> rem, target_status |-> target_status,
     turns |-> turns]

InitRace ==
    /\ devices = [d \in Devices |-> IF d = "d1" THEN Some([contact_name |-> None,
                                                           contact_phone |-> None])
                                    ELSE Absent]
    /\ events = <<>>
    /\ resp = Idle
    /\ facts = TextFacts
    /\ reminders \in RaceStores
    /\ \E session_id \in {None, "s1"}, rem \in {Candidate(TitleLuz, 9), Candidate(TitleLuz, NoDue)},
          target_status \in {"draft", "confirmed"} :
           probe = RaceProbe(session_id, rem, target_status,
                             [t \in RaceTurns |-> RaceTurn("find", NoId, NoId, <<>>)])

\* existing = repository.find_similar_reminder(...): an exception leaves the
\* try block of the turn
RaceFind(t) ==
    /\ probe.kind = "race"
    /\ probe.turns[t].pc = "find"
    /\ LET found == find_similar_reminder(reminders, "d1", probe.rem.title, probe.rem.due_at,
                                          probe.session_id)
       IN  probe' = [probe EXCEPT !.turns[t] =
                        IF found.raised THEN [@ EXCEPT !.pc = "done"]
                        ELSE [@ EXCEPT !.pc = "write", !.found = found.value]]
    /\ UNCHANGED <<devices, reminders, events, resp, facts>>

\* update_reminder_status on the reminder found, or create_reminder; then
\* reminder_ids.append(keep_id)
RaceWrite(t) ==
    /\ probe.kind = "race"
    /\ probe.turns[t].pc = "write"
    /\ LET found == probe.turns[t].found
           upd == update_reminder_status(reminders, found, probe.target_status)
           new == create_reminder(reminders, "d1", probe.rem.title, probe.rem.due_at,
                                  probe.target_status)
       IN  IF found # NoId
           THEN /\ reminders' = upd.reminders
                /\ probe' = [probe EXCEPT !.turns[t] =
                                [@ EXCEPT !.pc = "cleanup", !.keep_id = found,
                                          !.reminder_ids = Append(@, found)]]
           ELSE IF ~ AcceptsKwargs(CREATE_REMINDER_PARAMS, ProcessCreateReminderKwargs)
           THEN /\ reminders' = reminders
                /\ probe' = [probe EXCEPT !.turns[t].pc = "done"]
           ELSE /\ Len(reminders) < MaxReminders
                /\ reminders' = new.reminders
                /\ probe' = [probe EXCEPT !.turns[t] =
                                [@ EXCEPT !.pc = "cleanup", !.keep_id = new.id,
                                          !.reminder_ids = Append(@, new.id)]]
    /\ UNCHANGED <<devices, events, resp, facts>>

\* repository.cleanup_reminder_duplicates(..., keep_id=keep_id)
RaceCleanup(t) ==
    /\ probe.kind = "race"
    /\ probe.turns[t].pc = "cleanup"
    /\ reminders' = cleanup_reminder_duplicates(reminders, "d1", probe.rem.title,
                                                probe.rem.due_at, probe.turns[t].keep_id)
    /\ probe' = [probe EXCEPT !.turns[t].pc = "done"]
    /\ UNCHANGED <<devices, events, resp, facts>>

NextRace == \E t \in RaceTurns : RaceFind(t) \/ RaceWrite(t) \/ RaceCleanup(t)

SpecRace == InitRace /\ [][NextRace]_vars

(***************************************************************************)
(* Two emergency turns in flight at once: the look-up and the write of the *)
(* emergency branch are transactions of their own                          *)
(***************************************************************************)
\* the branch of process a turn takes: the gate's short circuit (357-370),
\* which only creates, or the persistence block (568-583)
RacePaths == {"gate", "main"}

RaceEventStores ==
    { <<>>,
      <<[device_id |-> "d1", status |-> "detected", action |-> None, session_arg |-> "s1"]>>,
      <<[device_id |-> "d1", status |-> "cancelled", action |-> None, session_arg |-> "s1"]>>,
      <<[device_id |-> "d1", status |-> "escalated", action |-> "call_services",
         session_arg |-> None]>> }

RaceEmergencyTurn(path, pc, existing_event) ==
    [path |-> path, pc |-> pc, existing_event |-> existing_event]

RaceEmergencyProbe(session_id, target_status, turns) ==
    [kind |-> "race_emergency", session_id |-> session_id, target_status |-> target_status,
     turns |-> turns]

InitRaceEmergency ==
    /\ devices = [d \in Devices |-> IF d = "d1" THEN Some([contact_name |-> None,
                                                           contact_phone |-> None])
                                    ELSE Absent]
    /\ reminders = <<>>
    /\ resp = Idle
    /\ facts = TextFacts
    /\ events \in RaceEventStores
    /\ \E session_id \in {None, "s1"}, target_status \in {"detected", "confirming", "escalated"},
          paths \in [RaceTurns -> RacePaths] :
           probe = RaceEmergencyProbe(session_id, target_status,
                       [t \in RaceTurns |->
                           RaceEmergencyTurn(paths[t],
                                             IF paths[t] = "gate" THEN "create" ELSE "lookup",
                                             NoId)])

\* existing_event = repository.get_latest_open_emergency(device_id, session_id=session_id)
RaceLookup(t) ==
    /\ probe.kind = "race_emergency"
    /\ probe.turns[t].pc = "lookup"
    /\ LET existing_event == get_latest_open_emergency(events, "d1", probe.session_id)
       IN  probe' = [probe EXCEPT !.turns[t] =
                        IF existing_event.raised THEN [@ EXCEPT !.pc = "done"]
                        ELSE [@ EXCEPT !.pc = IF existing_event.value # NoId THEN "update"
                                              ELSE "create",
                                       !.existing_event = existing_event.value]]
    /\ UNCHANGED <<devices, reminders, events, resp, facts>>

\* repository.update_emergency_status(existing_event.id, target_status, emergency_action)
RaceUpdate(t) ==
    /\ probe.kind = "race_emergency"
    /\ probe.turns[t].pc = "update"
    /\ events' = update_emergency_status(events, probe.turns[t].existing_event,
                                         probe.target_status, "call_services").events
    /\ probe' = [probe EXCEPT !.turns[t].pc = "done"]
    /\ UNCHANGED <<devices, reminders, resp, facts>>

\* repository.create_emergency_event(...): status detected on the gate's
\* branch, target_status in the persistence block
RaceCreate(t) ==
    /\ probe.kind = "race_emergency"
    /\ probe.turns[t].pc = "create"
    /\ Len(events) < MaxEvents
    /\ events' = create_emergency_event(events, "d1",
                     IF probe.turns[t].path = "gate" THEN "detected" ELSE probe.target_status,
                     probe.session_id,
                     IF probe.turns[t].path = "gate" THEN None ELSE "call_services").events
    /\ probe' = [probe EXCEPT !.turns[t].pc = "done"]
    /\ UNCHANGED <<devices, reminders, resp, facts>>

NextRaceEmergency == \E t \in RaceTurns : RaceLookup(t) \/ RaceUpdate(t) \/ RaceCreate(t)

SpecRaceEmergency == InitRaceEmergency /\ [][NextRaceEmergency]_vars

(***************************************************************************)
(* One turn of process on a fresh store, over more utterances: the prompt  *)
(* states of the reminder flow                                             *)
(***************************************************************************)
\* "cancela la cita del medico manana 9am"
TxtCancelaCita ==
    <<"c","a","n","c","e","l","a"," ","l","a"," ","c","i","t","a"," ","d","e","l"," ","m","e","d","i","c","o"," ","m","a","n","a","n","a"," ","9","a","m">>

\* "tengo que ir al medico"
TxtMedico ==
    <<"t","e","n","g","o"," ","q","u","e"," ","i","r"," ","a","l"," ","m","e","d","i","c","o">>

\* "hoy 5pm"
TxtHoy ==
    <<"h","o","y"," ","5","p","m">>

\* "si, confirmo tomar la pastilla azul hoy 5pm"
TxtConfirmo ==
    <<"s","i",","," ","c","o","n","f","i","r","m","o"," ","t","o","m","a","r"," ","l","a"," ","p","a","s","t","i","l","l","a"," ","a","z","u","l"," ","h","o","y"," ","5","p","m">>

RefineTexts == Texts \cup {TxtCancelaCita, TxtMedico, TxtHoy, TxtConfirmo}

RefineInputs ==
    { in \in { TurnInput("d1", "s1", t, [allow |-> TRUE, emergency |-> FALSE], TRUE, i, en, l,
                         <<>>, "none") :
                 t \in RefineTexts,
                 i \in { [label |-> "recordatorio", score |-> 90],
                         [label |-> "saludo", score |-> 50],
                         [label |-> "consulta_informacion", score |-> 90] },
                 en \in BOOLEAN,
                 l \in { NoReply, LlmReply("json", RECORDATORIO_CHARS, NoPrompt, TRUE),
                         LlmReply("json", CONSULTA_CHARS, LlmPrompt, FALSE) } } :
        in.enabled \/ in.llm = NoReply }

RefineProbe(in, done) == [kind |-> "refine", in |-> in, done |-> done]

InitRefine ==
    /\ devices = [d \in Devices |-> Absent]
    /\ reminders = <<>>
    /\ events = <<>>
    /\ resp = Idle
    /\ facts = { FactsAbout(t) : t \in RefineTexts }
    /\ \E in \in RefineInputs : probe = RefineProbe(in, FALSE)

\* POST /chat with the request drawn
RefineStep ==
    /\ probe.kind = "refine"
    /\ ~ probe.done
    /\ LET devs == ensure_device(devices, probe.in.device_id)
       IN  \E out \in {process(probe.in, devs, events, reminders)} :
               /\ devices' = devs
               /\ events' = out.events
               /\ reminders' = out.reminders
               /\ resp' = IF out.raised THEN [kind |-> "error", code |-> 500]
                          ELSE out.resp @@ TurnTrace(probe.in)
    /\ probe' = RefineProbe(probe.in, TRUE)
    /\ UNCHANGED facts

NextRefine == RefineStep

SpecRefine == InitRefine /\ [][NextRefine]_vars

(***************************************************************************)
(* The conversational context of the advisory call: the Message table, in  *)
(* order of creation, and what process and suggest read of it              *)
(***************************************************************************)
MaxMessages == 7

\* list_messages(device_id=device_id, limit=10, session_id=session_id)
RECENT_LIMIT == 10

\* recent_messages[-5:]
CONTEXT_MESSAGES == 5

\* the first n elements of a sequence: LIMIT n
Take(seq, n) == SubSeq(seq, 1, IF Len(seq) < n THEN Len(seq) ELSE n)

\* the last n elements of a sequence: seq[-n:]
LastOf(seq, n) == SubSeq(seq, IF Len(seq) > n THEN Len(seq) - n + 1 ELSE 1, Len(seq))

\* the positions of a set of rows, latest first: ORDER BY created_at DESC
RECURSIVE Descending(_)
Descending(ids) ==
    IF ids = {} THEN <<>> ELSE <<Latest(ids)>> \o Descending(ids \ {Latest(ids)})

\* list_messages: the rows of the device, and of the session when one is
\* given, latest first, at most limit of them
list_messages(msgs, device_id, limit, session_id) ==
    Take(Descending({i \in 1..Len(msgs) :
                        /\ msgs[i].device_id = device_id
                        /\ HasSession(session_id) => msgs[i].session_id = session_id}),
         limit)

\* the messages suggest puts in the prompt, in the order it writes them
context_lines(recent_messages) == LastOf(recent_messages, CONTEXT_MESSAGES)

ContextProbe(messages, session_id, context, built) ==
    [kind |-> "context", messages |-> messages, session_id |-> session_id,
     context |-> context, built |-> built]

InitContext ==
    /\ devices = [d \in Devices |-> Absent]
    /\ reminders = <<>>
    /\ events = <<>>
    /\ resp = Idle
    /\ facts = TextFacts
    /\ probe = ContextProbe(<<>>, "s1", <<>>, FALSE)

\* save_message: a row of the user or the assistant, in a session of d1
SaveMessage ==
    /\ probe.kind = "context"
    /\ Len(probe.messages) < MaxMessages
    /\ \E role \in {"user", "assistant"}, session_id \in Sessions :
           probe' = ContextProbe(Append(probe.messages,
                                        [device_id |-> "d1", session_id |-> session_id,
                                         role |-> role]),
                                 probe.session_id, <<>>, FALSE)
    /\ UNCHANGED <<devices, reminders, events, resp, facts>>

\* a turn of d1 in a session: process reads recent_messages and suggest
\* builds the context from them
BuildContext ==
    /\ probe.kind = "context"
    /\ \E session_id \in Sessions :
           probe' = ContextProbe(probe.messages, session_id,
                        context_lines(list_messages(probe.messages, "d1", RECENT_LIMIT,
                                                    session_id)),
                        TRUE)
    /\ UNCHANGED <<devices, reminders, events, resp, facts>>

NextContext == SaveMessage \/ BuildContext

SpecContext == InitContext /\ [][NextContext]_vars

(***************************************************************************)
(* The reads of the device profile inside one turn of process, with the    *)
(* profile updated by another request between them                         *)
(***************************************************************************)
ContactNames == {None, "Ana", "Luis"}

ContactPhones == {None, "600111222", "600333444"}

\* update_device: a field given as None is left as it is; a device that
\* does not exist is not created
update_device(devs, device_id, contact_name, contact_phone) ==
    IF devs[device_id] = Absent THEN devs
    ELSE [devs EXCEPT ![device_id] =
             Some([contact_name  |-> IF contact_name = None THEN devs[device_id][1].contact_name
                                     ELSE contact_name,
                   contact_phone |-> IF contact_phone = None THEN devs[device_id][1].contact_phone
                                     ELSE contact_phone])]

ProfileProbe(pc, text, fetches, first, flow, used, action, prompt) ==
    [kind |-> "profile", pc |-> pc, text |-> text, fetches |-> fetches, first |-> first,
     flow |-> flow, used |-> used, action |-> action, prompt |-> prompt]

ProfileTexts == {TxtDolor, TxtLlama, TxtFalsa, TxtLuz}

\* chat() has called ensure_device before the turn starts
InitProfile ==
    /\ devices = ensure_device([d \in Devices |-> Absent], "d1")
    /\ reminders = <<>>
    /\ events = <<>>
    /\ resp = Idle
    /\ facts = TextFacts
    /\ probe = ProfileProbe("idle", TxtDolor, 0, Absent, None, Absent, None, NoPrompt)

\* PUT /devices/{id} of another request
UpdateDevice ==
    /\ probe.kind = "profile"
    /\ \E contact_name \in ContactNames, contact_phone \in ContactPhones :
           devices' = update_device(devices, "d1", contact_name, contact_phone)
    /\ UNCHANGED <<reminders, events, resp, probe, facts>>

\* the start of process: get_device for medical_notes and conditions
ProfileFetch ==
    /\ probe.kind = "profile"
    /\ probe.pc \in {"idle", "done"}
    /\ \E text \in ProfileTexts :
           probe' = ProfileProbe("fetched", text, 1, get_device(devices, "d1"), None, Absent,
                                 None, NoPrompt)
    /\ UNCHANGED <<devices, reminders, events, resp, facts>>

\* classification, decide_flow_local, suggest and merge_flow_decisions
ProfileDecide ==
    /\ probe.kind = "profile"
    /\ probe.pc = "fetched"
    /\ \E flow \in ALLOWED_FLOWS : probe' = [probe EXCEPT !.pc = "decided", !.flow = flow]
    /\ UNCHANGED <<devices, reminders, events, resp, facts>>

\* the refinement: the emergency branch calls get_device again
ProfileRefine ==
    /\ probe.kind = "profile"
    /\ probe.pc = "decided"
    /\ IF probe.flow = "emergencia"
       THEN LET dev == get_device(devices, "d1")
                out == refine_emergency(probe.text,
                           FlowDecision(probe.flow, PROMPT_EMERGENCY, <<"intent_emergency">>, "local"),
                           dev, FALSE)
            IN  probe' = [probe EXCEPT !.pc = "done", !.fetches = probe.fetches + 1,
                                       !.used = dev, !.action = out.emergency_action,
                                       !.prompt = out.decision.next_prompt]
       ELSE probe' = [probe EXCEPT !.pc = "done"]
    /\ UNCHANGED <<devices, reminders, events, resp, facts>>

NextProfile == UpdateDevice \/ ProfileFetch \/ ProfileDecide \/ ProfileRefine

SpecProfile == InitProfile /\ [][NextProfile]_vars

(***************************************************************************)
(* The FlowDecision objects of one turn.  FlowDecision is a dataclass that *)
(* is not frozen: heap holds the objects, a decision is known by its       *)
(* position in heap, and an assignment to a field changes the object for   *)
(* every name bound to it.                                                 *)
(***************************************************************************)
ObjectTexts == {TxtDolor, TxtLlama, TxtLuz, TxtCancela, TxtHola}

ObjectProbe(pc, text, intent, gate, llm, dev, heap, local, merged, refined, returned_local, returned_merged) ==
    [kind |-> "objects", pc |-> pc, text |-> text, intent |-> intent, gate |-> gate,
     llm |-> llm, dev |-> dev, heap |-> heap, local |-> local, merged |-> merged,
     refined |-> refined, returned_local |-> returned_local,
     returned_merged |-> returned_merged]

InitObjects ==
    /\ devices = [d \in Devices |-> Absent]
    /\ reminders = <<>>
    /\ events = <<>>
    /\ resp = Idle
    /\ facts = TextFacts
    /\ \E text \in ObjectTexts, intent \in Intents, emergency \in BOOLEAN,
          llm \in MergeAdvisories,
          dev \in {Some([contact_name |-> None, contact_phone |-> None]),
                   Some([contact_name |-> "Ana", contact_phone |-> "600111222"])} :
           probe = ObjectProbe("start", text, intent, [allow |-> TRUE, emergency |-> emergency],
                               llm, dev, <<>>, NoId, NoId, NoId, Absent, Absent)

\* local_decision = self.decide_flow_local(...): a new object
ObjectDecide ==
    /\ probe.kind = "objects"
    /\ probe.pc = "start"
    /\ LET value == decide_flow_local(probe.text, probe.intent, probe.gate)
       IN  probe' = [probe EXCEPT !.pc = "decided", !.heap = <<value>>, !.local = 1,
                                  !.returned_local = Some(value)]
    /\ UNCHANGED <<devices, reminders, events, resp, facts>>

\* decision = self.merge_flow_decisions(...): local_decision itself when
\* there is no advisory opinion, a new object otherwise
ObjectMerge ==
    /\ probe.kind = "objects"
    /\ probe.pc = "decided"
    /\ LET value == merge_flow_decisions(probe.heap[probe.local], probe.llm)
       IN  IF probe.llm = Absent
           THEN probe' = [probe EXCEPT !.pc = "merged", !.merged = probe.local,
                                       !.returned_merged = Some(value)]
           ELSE probe' = [probe EXCEPT !.pc = "merged", !.heap = Append(probe.heap, value),
                                       !.merged = Len(probe.heap) + 1,
                                       !.returned_merged = Some(value)]
    /\ UNCHANGED <<devices, reminders, events, resp, facts>>

\* the refinement: the branches assign decision.next_prompt and
\* decision.reason, and _handle_emergency returns the object it was given
ObjectRefine ==
    /\ probe.kind = "objects"
    /\ probe.pc = "merged"
    /\ LET decision == probe.heap[probe.merged]
           value == IF decision.flow = "emergencia"
                    THEN refine_emergency(probe.text, decision, probe.dev, FALSE).decision
                    ELSE IF decision.flow = "recordatorio"
                    THEN refine_reminder(probe.text, decision)
                    ELSE decision
       IN  probe' = [probe EXCEPT !.pc = "done",
                                  !.heap = [probe.heap EXCEPT ![probe.merged] = value],
                                  !.refined = probe.merged]
    /\ UNCHANGED <<devices, reminders, events, resp, facts>>

NextObjects == ObjectDecide \/ ObjectMerge \/ ObjectRefine

SpecObjects == InitObjects /\ [][NextObjects]_vars

(***************************************************************************)
(* One turn of process, step by step, with the advisory call waiting for   *)
(* its answer.  The code is synchronous: each step follows the one before, *)
(* and the completion call of suggest carries timeout = llm_timeout.       *)
(***************************************************************************)
\* self.llm_timeout = 5.0, in seconds
llm_timeout == 5

\* a completion call without a timeout
timed_out_never(elapsed) == FALSE

\* the completion call has waited its timeout out
timed_out(elapsed) == elapsed >= llm_timeout

Stages == {"gate", "classify", "advisory", "finish"}

StepProbe(pc, in, elapsed, expired, steps) ==
    [kind |-> "step", pc |-> pc, in |-> in, elapsed |-> elapsed, expired |-> expired,
     steps |-> steps]

Stepped(stage) == [probe.steps EXCEPT ![stage] = probe.steps[stage] + 1]

StepInputs ==
    { TurnInput("d1", "s1", t, g, c, i, en, NoReply, <<>>, "none") :
        t \in {TxtHola, TxtLuz, TxtDolor}, g \in Gates, c \in BOOLEAN,
        i \in {[label |-> "emergencia_medica", score |-> 90],
               [label |-> "recordatorio", score |-> 90],
               [label |-> "saludo", score |-> 70]},
        en \in BOOLEAN }

\* the tables at the start of the turn: empty, or with a row of the device
StepEvents == {<<>>, create_emergency_event(<<>>, "d1", "detected", None, None).events}

StepReminders == {<<>>, create_reminder(<<>>, "d1", TitleLuz, 9, "draft").reminders}

\* POST /chat has validated the request and called ensure_device
InitStep ==
    /\ devices = ensure_device([d \in Devices |-> Absent], "d1")
    /\ reminders \in StepReminders
    /\ events \in StepEvents
    /\ resp = Idle
    /\ facts = TextFacts
    /\ \E in \in StepInputs :
           probe = StepProbe("accepted", in, 0, FALSE, [s \in Stages |-> 0])

\* the response of the turn: what process answers on the input as it stands
StepDone(in, stage) ==
    \E out \in {process(in, devices, events, reminders)} :
        /\ events' = out.events
        /\ reminders' = out.reminders
        /\ resp' = IF out.raised THEN [kind |-> "error", code |-> 500]
                   ELSE out.resp @@ TurnTrace(in)
        /\ probe' = [probe EXCEPT !.pc = "done", !.in = in, !.steps = Stepped(stage)]
        /\ UNCHANGED <<devices, facts>>

\* safety_gate: a denied message ends the turn in this step
StepGate ==
    /\ probe.kind = "step"
    /\ probe.pc = "accepted"
    /\ IF ~ probe.in.gate.allow
       THEN StepDone(probe.in, "gate")
       ELSE /\ probe' = [probe EXCEPT !.pc = "classify", !.steps = Stepped("gate")]
            /\ UNCHANGED <<devices, reminders, events, resp, facts>>

\* predict_intent .. predict_ner and decide_flow_local: a classifier that
\* raises ends the turn with the error
StepClassify ==
    /\ probe.kind = "step"
    /\ probe.pc = "classify"
    /\ IF ~ probe.in.cls_ok
       THEN StepDone(probe.in, "classify")
       ELSE /\ probe' = [probe EXCEPT !.pc = IF probe.in.enabled THEN "advisory" ELSE "finish",
                                      !.steps = Stepped("classify")]
            /\ UNCHANGED <<devices, reminders, events, resp, facts>>

\* the completion call of suggest answers, or raises, within the timeout
AdvisoryAnswer ==
    /\ probe.kind = "step"
    /\ probe.pc = "advisory"
    /\ ~ timed_out(probe.elapsed)
    /\ \E llm \in LlmReplies :
           probe' = [probe EXCEPT !.pc = "finish", !.in = [probe.in EXCEPT !.llm = llm],
                                  !.steps = Stepped("advisory")]
    /\ UNCHANGED <<devices, reminders, events, resp, facts>>

\* a second passes with the completion call unanswered
AdvisoryTick ==
    /\ probe.kind = "step"
    /\ probe.pc = "advisory"
    /\ probe.elapsed < llm_timeout
    /\ probe' = [probe EXCEPT !.elapsed = probe.elapsed + 1]
    /\ UNCHANGED <<devices, reminders, events, resp, facts>>

\* the timeout of the completion call: the client raises, suggest catches
\* the exception and returns None
AdvisoryTimeout ==
    /\ probe.kind = "step"
    /\ probe.pc = "advisory"
    /\ timed_out(probe.elapsed)
    /\ probe' = [probe EXCEPT !.pc = "finish", !.in = [probe.in EXCEPT !.llm = NoReply],
                              !.expired = TRUE, !.steps = Stepped("advisory")]
    /\ UNCHANGED <<devices, reminders, events, resp, facts>>

\* merge_flow_decisions, the refinement, the reply, persistence, the response
StepFinish ==
    /\ probe.kind = "step"
    /\ probe.pc = "finish"
    /\ StepDone(probe.in, "finish")

NextStep ==
    StepGate \/ StepClassify \/ AdvisoryAnswer \/ AdvisoryTick \/ AdvisoryTimeout \/ StepFinish

SpecStep == InitStep /\ [][NextStep]_vars

\* Each statement of process runs once the one before it has returned, and
\* the clock of the completion call advances; nothing makes the service
\* answer.  The weak fairness of StepGate, StepClassify and StepFinish is
\* written out: each is enabled exactly while the turn is at its pc.
SpecStepLive ==
    /\ SpecStep
    /\ []<>(probe.pc # "accepted") \/ []<><<StepGate>>_vars
    /\ []<>(probe.pc # "classify") \/ []<><<StepClassify>>_vars
    /\ WF_vars(AdvisoryTick)
    /\ WF_vars(AdvisoryTimeout)
    /\ []<>(probe.pc # "finish") \/ []<><<StepFinish>>_vars

(***************************************************************************)
(* Reminder turns of two devices over a table that holds rows of both.     *)
(* A Reminder row has no session column and process cannot create one      *)
(* (create_reminder takes no session_id), so every row comes from          *)
(* POST /reminders, which has no session.                                  *)
(***************************************************************************)
\* the session a row of the Reminder table was created in
ROW_SESSION == None

IsolationRows ==
    { [device_id |-> d, title |-> TitleLuz, due_at |-> due, status |-> s] :
        d \in Devices, due \in {9, FarDue}, s \in {"draft", "confirmed", "cancelled"} }

RECURSIVE IsolationStores(_)
IsolationStores(n) ==
    IF n = 0 THEN {<<>>}
    ELSE IsolationStores(n - 1)
         \cup { Append(rems, row) : rems \in { r \in IsolationStores(n - 1) : Len(r) = n - 1 },
                                    row \in IsolationRows }

\* process as POST /chat calls it, with a session, and called on its own
IsolationInputs ==
    { TurnInput(d, s, t, [allow |-> TRUE, emergency |-> FALSE], TRUE,
                [label |-> "recordatorio", score |-> 90], FALSE, NoReply, c, "none") :
        d \in Devices, s \in {None, "s1"}, t \in {TxtLuz, TxtRecuerda, TxtCancela},
        c \in {<<>>, <<Candidate(TitleLuz, 9)>>} }

IsolationProbe(before) == [kind |-> "isolation", before |-> before]

InitIsolation ==
    /\ devices = [d \in Devices |-> Some([contact_name |-> None, contact_phone |-> None])]
    /\ reminders \in IsolationStores(MaxReminders)
    /\ events = <<>>
    /\ resp = Idle
    /\ facts = TextFacts
    /\ probe = IsolationProbe(reminders)

IsolationTurn ==
    /\ probe.kind = "isolation"
    /\ \E in \in IsolationInputs :
           \E out \in {process(in, devices, events, reminders)} :
               /\ ~ out.raised
               /\ Len(out.reminders) <= MaxReminders
               /\ events' = out.events
               /\ reminders' = out.reminders
               /\ resp' = out.resp @@ TurnTrace(in)
               /\ probe' = IsolationProbe(reminders)
    /\ UNCHANGED <<devices, facts>>

NextIsolation == IsolationTurn

SpecIsolation == InitIsolation /\ [][NextIsolation]_vars

(***************************************************************************)
(* The four status-writing functions of the repository, called with        *)
(* statuses inside and outside their sets and with ids they do not know    *)
(***************************************************************************)
\* statuses a caller may pass: of reminders, of emergencies, of neither
StatusArgs == {"draft", "cancelled", "detected", "resolved", "", "pending"}

StatusProbe(op, id, status, raised, ok) ==
    [kind |-> "status", op |-> op, id |-> id, status |-> status, raised |-> raised, ok |-> ok]

InitStatus ==
    /\ devices = [d \in Devices |-> Absent]
    /\ reminders = <<>>
    /\ events = <<>>
    /\ resp = Idle
    /\ facts = TextFacts
    /\ probe = StatusProbe("none", NoId, "", FALSE, FALSE)

CallCreateReminder ==
    /\ probe.kind = "status"
    /\ Len(reminders) < MaxReminders
    /\ \E status \in StatusArgs :
           LET out == create_reminder(reminders, "d1", TitleLuz, 9, status)
           IN  /\ reminders' = out.reminders
               /\ probe' = StatusProbe("create_reminder", out.id, status, out.raised, ~ out.raised)
    /\ UNCHANGED <<devices, events, resp, facts>>

CallUpdateReminderStatus ==
    /\ probe.kind = "status"
    /\ \E reminder_id \in 1..(MaxReminders + 1), status \in StatusArgs :
           LET out == update_reminder_status(reminders, reminder_id, status)
           IN  /\ reminders' = out.reminders
               /\ probe' = StatusProbe("update_reminder_status", reminder_id, status,
                                       out.raised, out.ok)
    /\ UNCHANGED <<devices, events, resp, facts>>

CallCreateEmergencyEvent ==
    /\ probe.kind = "status"
    /\ Len(events) < MaxEvents
    /\ \E status \in StatusArgs :
           LET out == create_emergency_event(events, "d1", status, None, None)
           IN  /\ events' = out.events
               /\ probe' = StatusProbe("create_emergency_event", out.id, status, out.raised,
                                       ~ out.raised)
    /\ UNCHANGED <<devices, reminders, resp, facts>>

CallUpdateEmergencyStatus ==
    /\ probe.kind = "status"
    /\ \E event_id \in 1..(MaxEvents + 1), status \in StatusArgs :
           LET out == update_emergency_status(events, event_id, status, None)
           IN  /\ events' = out.events
               /\ probe' = StatusProbe("update_emergency_status", event_id, status,
                                       out.raised, out.ok)
    /\ UNCHANGED <<devices, reminders, resp, facts>>

NextStatus ==
    \/ CallCreateReminder
    \/ CallUpdateReminderStatus
    \/ CallCreateEmergencyEvent
    \/ CallUpdateEmergencyStatus

SpecStatus == InitStatus /\ [][NextStatus]_vars

(***************************************************************************)
(* Properties                                                              *)
(***************************************************************************)
IsTurn == resp.kind = "turn"

IsEmergencyTurn == IsTurn /\ resp.flow = "emergencia"

Merged == probe.kind = "merge" /\ probe.done

\* the events of a device and session that are open
OpenEvents(device_id, session_id) ==
    {i \in 1..Len(events) : /\ events[i].device_id = device_id
                            /\ events[i].session_arg = session_id
                            /\ IsOpen(events[i])}

\* the reminders of a device with a title and due date that are not cancelled
ActiveReminders(device_id, title, due_at) ==
    {i \in 1..Len(reminders) : /\ reminders[i].device_id = device_id
                               /\ reminders[i].title = title
                               /\ reminders[i].due_at = due_at
                               /\ reminders[i].status # "cancelled"}

\* the prompts an emergency decision ends with: the gate's, and the three
\* of _handle_emergency
EmergencyPrompts ==
    { PROMPT_EMERGENCY,
      <<"Entendido, cancelo la alerta. Si vuelves a sentirte mal, avisa de inmediato.">>,
      <<"Procedo a avisar a tu contacto de emergencia o servicios de urgencia. Confirmas?">>,
      <<"Es una emergencia? Llamo a tu contacto de emergencia o a servicios de urgencia.">> }

\* C1: a turn whose Safety Gate verdict has emergency = true answers the
\* flow emergencia, whether the gate denies or allows the message, whatever
\* the intent and whatever the advisory says or fails to say.
C1_GateEmergencyForcesFlow ==
    (IsTurn /\ resp.gate.emergency) => resp.flow = "emergencia"

\* a flagged message the gate allows, which the advisory called another flow
C1_Witness ==
    /\ IsTurn /\ resp.gate.emergency /\ resp.gate.allow
    /\ resp.flow = "emergencia" /\ resp.flow_source = "hybrid+safety"

\* C2: at every moment each device and session has at most one emergency
\* event whose status is neither resolved nor cancelled.
C2_OneOpenEventPerSession ==
    \A d \in Devices, s \in Sessions : Cardinality(OpenEvents(d, s)) <= 1

\* C3: when a reminder turn repeats the turn before it (same device,
\* session, text and candidates, no failure of the store, no cancellation),
\* each candidate has exactly one reminder that is not cancelled.
C3_RepeatedCandidateKeptOnce ==
    (/\ IsTurn /\ resp.flow = "recordatorio" /\ resp.repeated
     /\ resp.fail = "none" /\ resp.cands # <<>>
     /\ resp.flow_reason # <<"recordatorio_cancel">>)
    => \A k \in 1..Len(resp.cands) :
           Cardinality(ActiveReminders(resp.device_id, resp.cands[k].title,
                                       resp.cands[k].due_at)) = 1

\* C4: a merge of a local decision with a present advisory, one of which
\* names emergencia, returns emergencia; when the two name different flows
\* its source is the safety tag.
C4_MergeEscalatesEmergency ==
    (/\ Merged /\ probe.llm # Absent
     /\ (probe.local.flow = "emergencia" \/ probe.llm[1].flow = "emergencia"))
    => /\ probe.out[1].flow = "emergencia"
       /\ probe.local.flow # probe.llm[1].flow => probe.out[1].source = "hybrid+safety"

\* the advisory alone names emergencia against a local reminder
C4_Witness ==
    /\ Merged /\ probe.llm # Absent
    /\ probe.local.flow = "recordatorio" /\ probe.llm[1].flow = "emergencia"
    /\ probe.out[1].flow = "emergencia" /\ probe.out[1].source = "hybrid+safety"

\* C5: a merge without an advisory returns the local decision: the same
\* flow, next_prompt, reason and source.
C5_MergeAbsentReturnsLocal ==
    (Merged /\ probe.llm = Absent)
    => /\ probe.out[1].flow = probe.local.flow
       /\ probe.out[1].next_prompt = probe.local.next_prompt
       /\ probe.out[1].reason = probe.local.reason
       /\ probe.out[1].source = probe.local.source

\* a keyword reminder merged without an advisory
C5_Witness ==
    /\ Merged /\ probe.llm = Absent
    /\ probe.local.reason = <<"keyword_recordatorio">>
    /\ probe.out = Some(probe.local)

\* C6: an emergency turn whose event could not be read or written still
\* answers emergency = true, the flow emergencia, an emergency prompt and
\* no event id.
C6_EmergencySurvivesStoreFailure ==
    (IsEmergencyTurn /\ resp.persist_raised)
    => /\ resp.emergency
       /\ resp.next_prompt \in EmergencyPrompts
       /\ resp.emergency_event_id = NoId

\* the gate denies a flagged message and the write of its event fails
C6_Witness ==
    /\ IsEmergencyTurn /\ resp.persist_raised
    /\ ~ resp.gate.allow /\ resp.fail = "write"
    /\ resp.emergency /\ resp.emergency_event_id = NoId

\* C7: every turn that answers the flow emergencia replies the fixed
\* acknowledgement of the protocol and calls generate_reply not once.
C7_EmergencyReplyIsFixed ==
    IsEmergencyTurn => (resp.reply = REPLY_EMERGENCY /\ resp.generate_reply_calls = 0)

\* C8: an emergency turn of a device and session that had an open event
\* answers the id of that event and leaves the number of events as it was.
C8_OpenEventUpdatedInPlace ==
    (IsEmergencyTurn /\ resp.open_before # NoId)
    => /\ resp.emergency_event_id = resp.open_before
       /\ Len(events) = resp.events_before

\* C9: no two reminders of one device that are not cancelled have the same
\* title and due date.
C9_NoDuplicateActiveReminders ==
    \A i, j \in 1..Len(reminders) :
        (/\ i # j
         /\ reminders[i].device_id = reminders[j].device_id
         /\ reminders[i].title = reminders[j].title
         /\ reminders[i].due_at = reminders[j].due_at
         /\ reminders[i].status # "cancelled")
        => reminders[j].status = "cancelled"

\* C10: a merge of two decisions that name the same flow returns that flow,
\* the next_prompt of the local decision and the consensus tag.
C10_MergeConsensus ==
    (Merged /\ probe.llm # Absent /\ probe.local.flow = probe.llm[1].flow)
    => /\ probe.out[1].flow = probe.local.flow
       /\ probe.out[1].next_prompt = probe.local.next_prompt
       /\ probe.out[1].source = "hybrid+validated"

\* both name consulta_informacion and the advisory brings another prompt
C10_Witness ==
    /\ Merged /\ probe.llm # Absent
    /\ probe.local.flow = "consulta_informacion" /\ probe.llm[1].flow = "consulta_informacion"
    /\ probe.llm[1].next_prompt # probe.local.next_prompt
    /\ probe.out[1].source = "hybrid+validated"

\* C11: a merge of two decisions that name different flows, neither of them
\* emergencia and one of them recordatorio, returns recordatorio with the
\* preservation tag.
C11_MergePreservesReminder ==
    (/\ Merged /\ probe.llm # Absent
     /\ probe.local.flow # probe.llm[1].flow
     /\ probe.local.flow # "emergencia" /\ probe.llm[1].flow # "emergencia"
     /\ (probe.local.flow = "recordatorio" \/ probe.llm[1].flow = "recordatorio"))
    => /\ probe.out[1].flow = "recordatorio"
       /\ probe.out[1].source = "hybrid+preservation"

\* the local decision alone names recordatorio, against an advisory that
\* names consulta_informacion
C11_Witness ==
    /\ Merged /\ probe.llm # Absent
    /\ probe.local.flow = "recordatorio" /\ probe.llm[1].flow = "consulta_informacion"
    /\ probe.out[1].flow = "recordatorio" /\ probe.out[1].source = "hybrid+preservation"

(***************************************************************************)
(* The local decision, applied to drawn classifications                    *)
(***************************************************************************)
\* the labels predict_intent answers with
INTENT_LABELS ==
    { "agradecimiento", "alerta_medica", "comando_dispositivo", "configuracion_asistente",
      "consulta_informacion", "conversacion_social", "despedida", "emergencia_medica",
      "informacion_personal", "monitoreo_salud", "motivacion_personal", "no_entendido",
      "recordatorio", "reporte_emocional", "saludo" }

\* scores in hundredths, on both sides of the two thresholds
DecideScores == {0, 59, 60, 69, 70, 100}

DecideTexts == {TxtHola, TxtCita, TxtLuz, TxtFalsa, TxtRecuerda}

DecideProbe(text, intent, gate, out, done) ==
    [kind |-> "decide", text |-> text, intent |-> intent, gate |-> gate, out |-> out,
     done |-> done]

InitDecide ==
    /\ devices = [d \in Devices |-> Absent]
    /\ reminders = <<>>
    /\ events = <<>>
    /\ resp = Idle
    /\ facts = TextFacts
    /\ \E text \in DecideTexts, label \in INTENT_LABELS \cup {None, ""},
          score \in DecideScores, gate \in Gates :
           probe = DecideProbe(text, [label |-> label, score |-> score], gate, Absent, FALSE)

\* the call decide_flow_local(text, intent, gate, entities)
DecideStep ==
    /\ probe.kind = "decide"
    /\ ~ probe.done
    /\ probe' = DecideProbe(probe.text, probe.intent, probe.gate,
                            Some(decide_flow_local(probe.text, probe.intent, probe.gate)), TRUE)
    /\ UNCHANGED <<devices, reminders, events, resp, facts>>

NextDecide == DecideStep

SpecDecide == InitDecide /\ [][NextDecide]_vars

Decided == probe.kind = "decide" /\ probe.done

\* C12: decide_flow_local answers every drawn gate flag, label, score and
\* text with the decision of the first rule that matches: (1) gate flag or
\* emergency label, (2) label recordatorio and score >= 0.6, (3) reminder
\* keyword and score < 0.7, (4) informational label, (5) companionship
\* label, (6) fallback companionship; its flow is never bloqueado.
C12_LocalDecisionIsRuleTable ==
    Decided =>
        LET label   == IF probe.intent.label \in {None, ""} THEN "no_entendido"
                       ELSE probe.intent.label
            score   == probe.intent.score
            keyword == \E k \in 1..Len(RECORDATORIO_KEYWORDS) :
                           Contains(RECORDATORIO_KEYWORDS[k], Lower(probe.text))
            out     == probe.out[1]
            rule    == CASE probe.gate.emergency \/ label \in {"emergencia_medica", "alerta_medica"} -> 1
                         [] OTHER ->
                       CASE label = "recordatorio" /\ score >= 60 -> 2
                         [] OTHER ->
                       CASE keyword /\ score < 70 -> 3
                         [] OTHER ->
                       CASE label \in CONSULTA_LABELS -> 4
                         [] OTHER ->
                       CASE label \in ACOMP_LABELS -> 5
                         [] OTHER -> 6
        IN  /\ probe.out # Absent
            /\ out.flow \in ALLOWED_FLOWS
            /\ out.source = "local"
            /\ rule = 1 => out.flow = "emergencia"
            /\ rule = 2 => (out.flow = "recordatorio" /\ out.reason = <<"intent_recordatorio">>)
            /\ rule = 3 => (out.flow = "recordatorio" /\ out.reason = <<"keyword_recordatorio">>)
            /\ rule = 4 => out.flow = "consulta_informacion"
            /\ rule = 5 => (out.flow = "acompanamiento_social"
                            /\ out.reason = <<"intent_acompanamiento">>)
            /\ rule = 6 => (out.flow = "acompanamiento_social"
                            /\ out.reason = <<"fallback_acompanamiento">>)

\* a greeting scored 0.69 whose text holds a reminder keyword
C12_Witness ==
    /\ Decided
    /\ probe.text = TxtCita /\ probe.intent.label = "saludo" /\ probe.intent.score = 69
    /\ ~ probe.gate.emergency
    /\ probe.out[1].flow = "recordatorio" /\ probe.out[1].reason = <<"keyword_recordatorio">>

\* C13: an emergency turn that the gate allowed aims at the status
\* cancelled when its text holds a cancellation phrase, whether or not it
\* also holds a confirmation phrase; at escalated when it holds a
\* confirmation phrase and no cancellation phrase; at confirming otherwise.
C13_EmergencyTargetStatus ==
    (IsEmergencyTurn /\ resp.gate.allow) =>
        LET txt     == Lower(resp.text)
            cancel  == \E k \in 1..Len(EmergencyCancelWords) :
                           Contains(EmergencyCancelWords[k], txt)
            confirm == \E k \in 1..Len(EmergencyConfirmWords) :
                           Contains(EmergencyConfirmWords[k], txt)
        IN  resp.target_status = IF cancel THEN "cancelled"
                                 ELSE IF confirm THEN "escalated"
                                 ELSE "confirming"

\* "no llames a nadie, fue una emergencia" holds both kinds of phrase
C13_Witness ==
    /\ IsEmergencyTurn /\ resp.gate.allow
    /\ resp.text = TxtAmbos
    /\ resp.target_status = "cancelled"

\* C14: an emergency turn whose text names the emergency without asking
\* for a call ("me cai y sangro, es emergencia"), in a device and session
\* with no open event and with the store working, adds one event, answers
\* its id, and the event's status is confirming or detected.
C14_ReportedEmergencyCreatesEvent ==
    (/\ IsEmergencyTurn /\ resp.text = TxtCaida
     /\ resp.open_before = NoId /\ resp.fail = "none")
    => /\ Len(events) = resp.events_before + 1
       /\ resp.emergency_event_id = Len(events)
       /\ events[Len(events)].status \in {"confirming", "detected"}

\* C15: a reminder turn with cancel phrasing ("cancela eso"), in a device
\* whose latest reminder is a draft and with the store working, sets that
\* reminder to cancelled, answers its id in reminder_ids and adds no
\* reminder.
C15_CancelTurnCancelsDraft ==
    (/\ IsTurn /\ resp.flow = "recordatorio" /\ resp.text = TxtCancela
     /\ resp.fail = "none" /\ resp.draft_before # NoId)
    => /\ reminders[resp.draft_before].status = "cancelled"
       /\ resp.reminder_ids = <<resp.draft_before>>
       /\ Len(reminders) = resp.reminders_before

(***************************************************************************)
(* The advisory, applied to drawn replies of the completion call           *)
(***************************************************************************)
\* FlowAssistant.__init__: enabled needs the setting and a client
FlowAssistantEnabled(flow_use_llm, has_client) == flow_use_llm /\ has_client

UPPER_RECORDATORIO_CHARS ==
    <<"R","E","C","O","R","D","A","T","O","R","I","O">>

\* the replies of the turns, a call that times out, a reply that is JSON
\* but no object, and a flow name in upper case
SuggestReplies ==
    LlmReplies \cup
    { LlmReply("timeout", <<>>, NoPrompt, FALSE),
      LlmReply("not_object", <<>>, NoPrompt, FALSE),
      LlmReply("json", UPPER_RECORDATORIO_CHARS, LlmPrompt, FALSE),
      LlmReply("json", <<" ">>, NoPrompt, TRUE),
      LlmReply("json", CONSULTA_CHARS, LlmPrompt, FALSE),
      LlmReply("json", ACOMP_CHARS, NoPrompt, TRUE) }

SuggestProbe(flow_use_llm, has_client, llm, out, done) ==
    [kind |-> "suggest", flow_use_llm |-> flow_use_llm, has_client |-> has_client,
     llm |-> llm, out |-> out, done |-> done]

InitSuggest ==
    /\ devices = [d \in Devices |-> Absent]
    /\ reminders = <<>>
    /\ events = <<>>
    /\ resp = Idle
    /\ facts = TextFacts
    /\ \E flow_use_llm \in BOOLEAN, has_client \in BOOLEAN, llm \in SuggestReplies :
           probe = SuggestProbe(flow_use_llm, has_client, llm, Absent, FALSE)

\* the call assistant.suggest(text, intent, sentiment, emotion, entities)
SuggestStep ==
    /\ probe.kind = "suggest"
    /\ ~ probe.done
    /\ probe' = SuggestProbe(probe.flow_use_llm, probe.has_client, probe.llm,
                    suggest(FlowAssistantEnabled(probe.flow_use_llm, probe.has_client),
                            probe.llm),
                    TRUE)
    /\ UNCHANGED <<devices, reminders, events, resp, facts>>

NextSuggest == SuggestStep

SpecSuggest == InitSuggest /\ [][NextSuggest]_vars

Suggested == probe.kind = "suggest" /\ probe.done

\* C16: suggest answers no decision when the setting is off, when there is
\* no client, when the call raises or times out, when the reply is not a
\* JSON object, and when the flow it names, stripped and in lower case, is
\* none of the four flows; a decision it answers names one of the four.
C16_SuggestAbsentOrAllowed ==
    Suggested =>
        LET named == Lower(Strip(probe.llm.flow))
            known == named \in {EMERGENCIA_CHARS, RECORDATORIO_CHARS, ACOMP_CHARS, CONSULTA_CHARS}
        IN  /\ (\/ ~ probe.flow_use_llm
                \/ ~ probe.has_client
                \/ probe.llm.kind \in {"raises", "timeout", "invalid", "not_object"}
                \/ ~ known)
               => probe.out = Absent
            /\ probe.out # Absent => probe.out[1].flow \in ALLOWED_FLOWS

\* a reply that names the flow bloqueado, with the validator enabled
C16_Witness ==
    /\ Suggested
    /\ probe.flow_use_llm /\ probe.has_client
    /\ probe.llm.kind = "json" /\ probe.llm.flow = BLOQUEADO_CHARS
    /\ probe.out = Absent

\* C17: in every state of the store, a turn whose advisory call raises or
\* whose reply cannot be used (no JSON, a flow that is none of the four)
\* has the flow, next_prompt, flow_reason, flow_source and emergency flag,
\* the ids and the tables of the same turn with the advisory disabled.
C17_FailedAdvisoryIsNoAdvisory ==
    \A in \in DecidedInputs :
        LET named == Lower(Strip(in.llm.flow))
            unusable ==
                \/ in.llm.kind # "json"
                \/ named \notin {EMERGENCIA_CHARS, RECORDATORIO_CHARS, ACOMP_CHARS, CONSULTA_CHARS}
            devs == ensure_device(devices, in.device_id)
            with == process(in, devs, events, reminders)
            without == process([in EXCEPT !.enabled = FALSE, !.llm = NoReply], devs, events,
                               reminders)
        IN  (in.enabled /\ unusable) =>
                /\ with.raised = without.raised
                /\ with.events = without.events
                /\ with.reminders = without.reminders
                /\ ~ with.raised =>
                       /\ with.resp.flow = without.resp.flow
                       /\ with.resp.next_prompt = without.resp.next_prompt
                       /\ with.resp.flow_reason = without.resp.flow_reason
                       /\ with.resp.flow_source = without.resp.flow_source
                       /\ with.resp.emergency = without.resp.emergency
                       /\ with.resp.reminder_ids = without.resp.reminder_ids
                       /\ with.resp.emergency_event_id = without.resp.emergency_event_id

\* a keyword reminder turn whose advisory failed, with an event in the store
C17_Witness ==
    /\ IsTurn /\ resp.advisory = "failed"
    /\ resp.flow = "recordatorio" /\ resp.flow_source = "local"
    /\ resp.text = TxtCita
    /\ Len(events) > 0

\* C18: a turn in which a classification call failed ends in a service
\* error, so no response of a turn reports a failed classification.
\* Violated: the gate's emergency branch replaces the failed sentiment,
\* emotion and entity results by neutral ones, writes an event and answers.
C18_ClassificationFailureIsServiceError ==
    IsTurn => ~ resp.classification_failed

C20_TerminalEventsKeepStatus ==
    [][\A i \in 1..Len(events) :
          ~ IsOpen(events[i]) =>
              /\ i <= Len(events')
              /\ events'[i].status = events[i].status]_vars

\* C21: when both of two concurrent turns with the same candidate are over,
\* the device has exactly one reminder of that title and due time that is
\* not cancelled.  Violated: with none stored before, neither turn writes
\* one, since the find or the create of each raises.
C21_ConcurrentTurnsLeaveOneReminder ==
    (probe.kind = "race" /\ \A t \in RaceTurns : probe.turns[t].pc = "done") =>
        Cardinality({i \in 1..Len(reminders) :
                        /\ reminders[i].device_id = "d1"
                        /\ reminders[i].title = probe.rem.title
                        /\ reminders[i].due_at = probe.rem.due_at
                        /\ reminders[i].status # "cancelled"}) = 1

\* C22: when both of two concurrent emergency turns of a device and session
\* are over, at most one event created for that device and session is open.
\* Violated: both turns create an event.
C22_ConcurrentTurnsLeaveOneOpenEvent ==
    (probe.kind = "race_emergency" /\ \A t \in RaceTurns : probe.turns[t].pc = "done") =>
        Cardinality({i \in 1..Len(events) :
                        /\ events[i].device_id = "d1"
                        /\ events[i].session_arg = probe.session_id
                        /\ IsOpen(events[i])}) <= 1

IsStatusPoll == resp.kind = "api" /\ resp.op = "get_emergency_status"

\* C23: a poll of the emergency status answers "emergency" exactly when the
\* device has an event that is neither resolved nor cancelled, naming the
\* latest such event, and "ok" otherwise.
C23_PollReportsOpenEvents ==
    IsStatusPoll =>
        LET open == {i \in 1..Len(events) : /\ events[i].device_id = resp.device_id
                                            /\ IsOpen(events[i])}
        IN  /\ resp.status = IF open # {} THEN "emergency" ELSE "ok"
            /\ resp.emergency_id = Latest(open)

\* a poll answers "ok" for a device whose events, one of them raised in the
\* chat, are all closed
C23_Witness ==
    /\ IsStatusPoll /\ resp.status = "ok"
    /\ \E i \in 1..Len(events) : events[i].device_id = resp.device_id /\ events[i].session_arg = "s1"
    /\ \A i \in 1..Len(events) : events[i].device_id = resp.device_id => ~ IsOpen(events[i])

\* C24: a merge of two decisions that name different flows, neither of them
\* emergencia or recordatorio, returns the flow and next_prompt of the
\* advisory with the corrected tag; and the flow of every merge is the flow
\* of the local decision or of the advisory.
C24_MergeTrustsAdvisory ==
    Merged =>
        /\ (/\ probe.llm # Absent
            /\ probe.local.flow # probe.llm[1].flow
            /\ probe.local.flow \notin {"emergencia", "recordatorio"}
            /\ probe.llm[1].flow \notin {"emergencia", "recordatorio"})
           => /\ probe.out[1].flow = probe.llm[1].flow
              /\ probe.out[1].next_prompt = probe.llm[1].next_prompt
              /\ probe.out[1].source = "hybrid+corrected"
        /\ \/ probe.out[1].flow = probe.local.flow
           \/ probe.llm # Absent /\ probe.out[1].flow = probe.llm[1].flow

\* the local decision names acompanamiento_social with a prompt, the
\* advisory consulta_informacion without one
C24_Witness ==
    /\ Merged /\ probe.llm # Absent
    /\ probe.local.flow = "acompanamiento_social" /\ probe.local.next_prompt # NoPrompt
    /\ probe.llm[1].flow = "consulta_informacion" /\ probe.llm[1].next_prompt = NoPrompt
    /\ probe.out[1].flow = "consulta_informacion" /\ probe.out[1].next_prompt = NoPrompt

\* C25: for a score of 0.7 or more, a label other than recordatorio and no
\* emergency trigger (gate flag, emergency label), decide_flow_local answers
\* the flow of the label, consulta_informacion for an informational label
\* and acompanamiento_social for every other, whatever keyword the text
\* holds: never recordatorio.
C25_KeywordNeverOverridesConfidentLabel ==
    (/\ Decided
     /\ probe.intent.score >= 70
     /\ probe.intent.label # "recordatorio"
     /\ ~ probe.gate.emergency
     /\ probe.intent.label \notin {"emergencia_medica", "alerta_medica"})
    => /\ probe.out[1].flow # "recordatorio"
       /\ probe.out[1].flow = IF probe.intent.label \in CONSULTA_LABELS
                              THEN "consulta_informacion"
                              ELSE "acompanamiento_social"

\* "necesito recordar pagar la luz manana 9am" classified
\* consulta_informacion at 0.7
C25_Witness ==
    /\ Decided
    /\ probe.text = TxtLuz /\ FactsOf(TxtLuz).keyword_recordatorio
    /\ probe.intent.label = "consulta_informacion" /\ probe.intent.score = 70
    /\ ~ probe.gate.emergency
    /\ probe.out[1].flow = "consulta_informacion"

IsReminderTurn == IsTurn /\ resp.flow = "recordatorio"

\* C26: the flow_reason of a reminder turn is recordatorio_cancel when the
\* text has cancel phrasing; otherwise recordatorio_confirm when it has
\* content and time, recordatorio_pedir_hora when it has content and no
\* time, recordatorio_pedir_contenido when it has no content.
C26_ReminderPromptState ==
    IsReminderTurn =>
        LET said == FactsOf(resp.text)
        IN  resp.flow_reason =
               IF said.is_cancel THEN <<"recordatorio_cancel">>
               ELSE IF said.slots.has_content /\ said.slots.has_time
               THEN <<"recordatorio_confirm">>
               ELSE IF said.slots.has_content THEN <<"recordatorio_pedir_hora">>
               ELSE <<"recordatorio_pedir_contenido">>

\* "cancela la cita del medico manana 9am" has cancel phrasing, content and
\* time, and is answered with the cancel prompt
C26_Witness ==
    /\ IsReminderTurn
    /\ resp.text = TxtCancelaCita
    /\ FactsOf(TxtCancelaCita).slots = [has_time |-> TRUE, has_content |-> TRUE]
    /\ resp.flow_reason = <<"recordatorio_cancel">>

\* C27: a reminder turn answered with the cancel prompt aims at the status
\* cancelled, whatever else its text holds.  Violated: confirmation
\* phrasing replaces the target status of every reminder turn by confirmed.
C27_CancelPromptKeepsCancelled ==
    (IsReminderTurn /\ resp.flow_reason = <<"recordatorio_cancel">>) =>
        resp.target_status = "cancelled"

SameTitle(rems, turn) ==
    {i \in 1..Len(rems) : /\ rems[i].device_id = turn.device_id
                          /\ rems[i].title = turn.cands[1].title}

\* a reminder turn that is not a cancellation and carries a candidate
IsUpsertTurn(turn) ==
    /\ turn.kind = "turn" /\ turn.flow = "recordatorio"
    /\ turn.target_status # "cancelled" /\ turn.cands # <<>> /\ turn.fail = "none"

\* C29: a reminder turn leaves every cancelled reminder cancelled, and when
\* all the reminders with the candidate's title are cancelled it adds a
\* record.  Violated: the turn adds none.
C29_CancelledRemindersAreNotMatched ==
    [][IsUpsertTurn(resp') =>
          /\ \A i \in 1..Len(reminders) :
                 reminders[i].status = "cancelled" => reminders'[i].status = "cancelled"
          /\ (/\ SameTitle(reminders, resp') # {}
              /\ \A i \in SameTitle(reminders, resp') : reminders[i].status = "cancelled")
             => Len(reminders') = Len(reminders) + 1]_vars

\* C30: a reminder turn whose candidate is due more than 24 hours from
\* every reminder of the same title adds a record and leaves the others as
\* they were.  Violated: the turn adds none.
C30_FarDueCreatesReminder ==
    [][(/\ IsUpsertTurn(resp')
        /\ resp'.cands[1].due_at # NoDue
        /\ SameTitle(reminders, resp') # {}
        /\ \A i \in SameTitle(reminders, resp') :
               /\ reminders[i].due_at # NoDue
               /\ AbsDiff(reminders[i].due_at, resp'.cands[1].due_at) > WINDOW_HOURS)
       => /\ Len(reminders') = Len(reminders) + 1
          /\ \A i \in 1..Len(reminders) : reminders'[i] = reminders[i]]_vars

\* C31: the context of an advisory call holds at most five messages of the
\* device and session, and every message left out is older than every
\* message in it.  Violated: of a history of more than five messages the
\* context holds the oldest five of the ten latest.
C31_ContextIsMostRecent ==
    (probe.kind = "context" /\ probe.built) =>
        LET history == {i \in 1..Len(probe.messages) :
                           probe.messages[i].session_id = probe.session_id}
            held == {probe.context[k] : k \in 1..Len(probe.context)}
        IN  /\ Len(probe.context) <= CONTEXT_MESSAGES
            /\ held \subseteq history
            /\ \A i \in history \ held : \A j \in held : i < j

\* C32: a turn reads the device profile from the store once, and the
\* contact its emergency decision uses is the one of that read.  Violated:
\* an emergency turn reads the profile a second time, after the decision,
\* and takes the contact from the second read.
C32_ProfileFetchedOnce ==
    (probe.kind = "profile" /\ probe.pc = "done") =>
        /\ probe.fetches = 1
        /\ probe.flow = "emergencia" => probe.used = probe.first

\* C33: at the end of a turn whose flow has a refinement, the decision
\* decide_flow_local returned and the decision the merge returned still
\* have the next_prompt and reason they were returned with, and the refined
\* decision is another object.  Violated: the refinement assigns the fields
\* of the merged decision, which is the local decision itself when the
\* advisory gave no opinion.
C33_RefinementLeavesDecisionsAlone ==
    (probe.kind = "objects" /\ probe.pc = "done"
        /\ probe.heap[probe.refined].flow \in {"emergencia", "recordatorio"}) =>
        /\ probe.heap[probe.local].next_prompt = probe.returned_local[1].next_prompt
        /\ probe.heap[probe.local].reason = probe.returned_local[1].reason
        /\ probe.heap[probe.merged].next_prompt = probe.returned_merged[1].next_prompt
        /\ probe.heap[probe.merged].reason = probe.returned_merged[1].reason
        /\ probe.refined # probe.merged

\* C34: an emergency turn whose text asks to call or confirms takes the
\* action contact_family when the device has a contact phone and
\* call_services when it has none, and its next_prompt is not the one the
\* turn would have had with the other action.  Violated: _handle_emergency
\* replaces the prompt that names the action with one prompt for both.
C34_PromptConfirmsTheAction ==
    (probe.kind = "profile" /\ probe.pc = "done" /\ probe.flow = "emergencia"
        /\ FactsOf(probe.text).emergency_confirm /\ ~ FactsOf(probe.text).emergency_cancel) =>
        LET has_phone == probe.used # Absent /\ probe.used[1].contact_phone \notin {None, ""}
            other == IF has_phone THEN Some([contact_name |-> None, contact_phone |-> None])
                     ELSE Some([contact_name |-> "Ana", contact_phone |-> "600111222"])
            decision == FlowDecision(probe.flow, PROMPT_EMERGENCY, <<"intent_emergency">>, "local")
        IN  /\ probe.action = IF has_phone THEN "contact_family" ELSE "call_services"
            /\ probe.prompt # refine_emergency(probe.text, decision, other, FALSE).decision.next_prompt

StepTurnDone == probe.kind = "step" /\ probe.pc = "done"

C36_EmergencyFlagIffEmergencyFlow ==
    IsTurn => (resp.emergency <=> resp.flow = "emergencia")

C36_Witness ==
    /\ IsTurn
    /\ resp.gate.allow
    /\ resp.gate.emergency
    /\ resp.flow_source = "hybrid+safety"
    /\ resp.emergency
    /\ resp.flow = "emergencia"

MERGED_SOURCES == {"hybrid+validated", "hybrid+safety", "hybrid+preservation", "hybrid+corrected"}

\* C37: the flow_source of a turn response is gate exactly when the gate
\* denied the message, local exactly when the message was allowed and the
\* advisory gave no opinion, and one of the four merged tags otherwise; it
\* is never the advisory's own tag, and it is the source the merge gave,
\* whatever the refinement did.
C37_FlowSourceTags ==
    (StepTurnDone /\ resp.kind = "turn") =>
        LET in == probe.in
            opinion == IF in.enabled THEN suggest(in.enabled, in.llm) ELSE Absent
        IN  /\ resp.flow_source = "gate" <=> ~ in.gate.allow
            /\ resp.flow_source = "local" <=> (in.gate.allow /\ opinion = Absent)
            /\ (in.gate.allow /\ opinion # Absent) => resp.flow_source \in MERGED_SOURCES
            /\ resp.flow_source # "llm"
            /\ in.gate.allow =>
                   resp.flow_source =
                       merge_flow_decisions(decide_flow_local(in.text, in.intent, in.gate),
                                            opinion).source

C37_Witness ==
    /\ StepTurnDone
    /\ resp.kind = "turn"
    /\ resp.flow_source = "hybrid+corrected"
    /\ resp.flow = "consulta_informacion"

\* C38: a turn whose message the gate denies without flagging an emergency
\* answers flow bloqueado with source gate and no next_prompt, ends at the
\* gate without a classifier, advisory or reply-generator call (it answers
\* even when the classifier would raise), and leaves the Reminder and
\* EmergencyEvent tables as they were.
C38_BlockedTurnFrame ==
    [][(probe.kind = "step" /\ probe.pc = "accepted"
          /\ ~ probe.in.gate.allow /\ ~ probe.in.gate.emergency) =>
         /\ resp'.kind = "turn"
         /\ resp'.flow = "bloqueado"
         /\ resp'.flow_source = "gate"
         /\ resp'.next_prompt = NoPrompt
         /\ resp'.generate_reply_calls = 0
         /\ probe'.pc = "done"
         /\ probe'.steps["classify"] = 0
         /\ probe'.steps["advisory"] = 0
         /\ events' = events
         /\ reminders' = reminders]_vars

C38_Witness ==
    /\ StepTurnDone
    /\ ~ probe.in.gate.allow
    /\ ~ probe.in.gate.emergency
    /\ ~ probe.in.cls_ok
    /\ probe.in.enabled
    /\ resp.kind = "turn"
    /\ resp.flow = "bloqueado"
    /\ Len(events) = 1
    /\ Len(reminders) = 1

C40_StatusWritesAreValidated ==
    [][(probe'.kind = "status" /\ probe'.op # "none" /\ probe' # probe) =>
         LET call == probe'
             on_reminders == call.op \in {"create_reminder", "update_reminder_status"}
             valid == IF on_reminders THEN call.status \in REMINDER_STATUSES
                      ELSE call.status \in EMERGENCY_STATUSES
             is_update == call.op \in {"update_reminder_status", "update_emergency_status"}
             known == IF on_reminders THEN call.id \in 1..Len(reminders)
                      ELSE call.id \in 1..Len(events)
         IN  /\ ~ valid => (call.raised /\ reminders' = reminders /\ events' = events)
             /\ (valid /\ is_update /\ ~ known) =>
                    (~ call.raised /\ ~ call.ok /\ reminders' = reminders /\ events' = events)
             /\ (valid /\ (~ is_update \/ known)) => (~ call.raised /\ call.ok)
             /\ \A i \in 1..Len(reminders') : reminders'[i].status \in REMINDER_STATUSES
             /\ \A i \in 1..Len(events') : events'[i].status \in EMERGENCY_STATUSES]_vars

C40_Witness ==
    /\ probe.kind = "status"
    /\ probe.op = "update_emergency_status"
    /\ probe.id \in 1..Len(events)
    /\ probe.status = "draft"
    /\ probe.raised
    /\ events[probe.id].status = "detected"
    /\ Len(reminders) > 0

====
